---- MODULE Spec2Model ----
(***************************************************************************)
(* A model of the carbonPaper monitor: the Command Channel                 *)
(* (monitor/__init__.py, monitor/ipc_pipe.py), the capture scheduler       *)
(* (monitor/capture.py) and the OCR worker with its persistence handshake  *)
(* (screenshot_worker.py, db_handler.py, vector_store.py).                 *)
(***************************************************************************)
EXTENDS Integers, Sequences, FiniteSets, TLC

(***************************************************************************)
(* Bounds of the model.                                                    *)
(***************************************************************************)
\* largest _seq_no a request carries
MaxSeq == 2
\* number of connections the pipe server accepts in a behaviour
MaxReqs == 3
\* number of frames handed to the worker's queue in a behaviour
MaxTasks == 3
\* the last clock reading at which a tick starts
MaxNow == 21
\* number of calls of update_exclusion_settings in a behaviour
MaxUpdates == 2
\* number of connections the pipe server accepts in a behaviour
MaxConns == 3
\* number of image hashes a delete_by_time_range request carries
MaxHashes == 3
\* number of calls of OCREngine.recognize in a behaviour
MaxCalls == 4

\* capture.py: the base capture interval, in seconds
INTERVAL == 10
\* capture_loop: the pending count above which a focus change is not captured
MAX_PENDING == 1
\* _is_redundant: the Hamming distance below which a frame is redundant
THRESHOLD == 10
\* capture_loop: the number of dHashes kept in the history
HISTORY_SIZE == 3

(***************************************************************************)
(* Command Channel: requests and responses.                                *)
(***************************************************************************)
\* one handler thread per connection (_NamedPipeServer._serve_loop)
Threads == {1, 2}

\* the token given to start(); "" stands for "no token configured"
Token == "secret"

\* req.get('_auth_token'): the configured token, another one, or absent
ReqTokens == {"secret", "wrong", "absent"}

\* the command names the model dispatches; "bogus" is no command of the
\* code, "number" stands for a command field that holds a JSON number
Commands ==
    {"pause", "resume", "stop", "status", "update_filters", "bogus", "number"}

\* the commands of the model that _handle_command has a branch for
Recognised == {"pause", "resume", "stop", "status", "update_filters"}

\* a list given for filters.processes: absent, [], or one raw name
Absent == "absent"

FilterLists == {Absent, "empty", "raw"}

\* filters.ignore_protected: absent, true, false
FilterFlags == {Absent, "true", "false"}

\* the set update_exclusion_settings builds from a processes list
NormProcesses(l) == IF l = "raw" THEN {"chrome.exe"} ELSE {}

\* the _seq_no field: absent, or a number
SeqFields ==
    {[has_seq |-> FALSE, seq |-> 0]} \cup
    {[has_seq |-> TRUE, seq |-> s] : s \in 0..MaxSeq}

\* a request: _auth_token, _seq_no, command and, for update_filters, the
\* filters object
MakeRequest(tk, sf, c, p, ip) ==
    [token |-> tk, has_seq |-> sf.has_seq, seq |-> sf.seq, command |-> c,
     processes |-> p, ignore_protected |-> ip]

Requests ==
    { MakeRequest(tk, sf, c, Absent, Absent) :
        tk \in ReqTokens, sf \in SeqFields, c \in Commands \ {"update_filters"} }
    \cup
    { MakeRequest(tk, sf, "update_filters", p, ip) :
        tk \in ReqTokens, sf \in SeqFields, p \in FilterLists, ip \in FilterFlags }

NoReq ==
    [token |-> "absent", has_seq |-> FALSE, seq |-> 0, command |-> "bogus",
     processes |-> Absent, ignore_protected |-> Absent]

\* a response: {'error': msg} or {'status': msg}; got/expected are the
\* numbers the sequence error message prints
Response(kind, msg, got, expected) ==
    [kind |-> kind, msg |-> msg, got |-> got, expected |-> expected]

NoResp == Response("none", "", 0, 0)

InvalidToken == Response("error", "Authentication failed: Invalid token", 0, 0)

InvalidSeq(got, expected) ==
    Response("error", "Authentication failed: Invalid sequence number", got, expected)

IsAuthFailure(r) ==
    /\ r.kind = "error"
    /\ r.msg \in {"Authentication failed: Invalid token",
                  "Authentication failed: Invalid sequence number"}

VARIABLES
    auth_token,               \* _auth_token
    last_seq_no,              \* _last_seq_no
    ocr_worker,               \* _ocr_worker is not None
    paused_event,             \* capture.paused_event
    stop_event,               \* capture.stop_event
    worker_pause_event,       \* ScreenshotOCRWorker._pause_event
    worker_stop_event,        \* ScreenshotOCRWorker._stop_event
    USER_EXCLUDED_PROCESSES,  \* capture.USER_EXCLUDED_PROCESSES
    IGNORE_PROTECTED_WINDOWS, \* capture.IGNORE_PROTECTED_WINDOWS
    hpc,                      \* handler thread -> position in _handle_command
    hreq,                     \* handler thread -> its request
    hresp,                    \* handler thread -> the response it returns
    hexec,                    \* handler thread -> the command branch it ran
    hsnap,                    \* handler thread -> the shared state when it connected
    accepted,                 \* the _seq_no values written, in order
    nreqs                     \* connections accepted so far

chanVars ==
    <<auth_token, last_seq_no, ocr_worker, paused_event, stop_event,
      worker_pause_event, worker_stop_event, USER_EXCLUDED_PROCESSES,
      IGNORE_PROTECTED_WINDOWS, hpc, hreq, hresp, hexec, hsnap, accepted, nreqs>>

VARIABLES
    storage_client,           \* ScreenshotOCRWorker.storage_client is not None
    task_queue,               \* ScreenshotOCRWorker._task_queue
    in_flight,                \* ScreenshotOCRWorker._in_flight
    stats,                    \* ScreenshotOCRWorker.stats
    wpc,                      \* position of the worker thread in _worker_loop
    cur,                      \* the task the worker thread holds
    run,                      \* what process_image_from_memory did for cur
    pending,                  \* storage service: staged ids not committed or aborted
    screenshots,              \* relational store: the screenshots rows
    collection,               \* embedding index: the ids given to collection.add
    nenq,                     \* frames handed to queue_image_from_memory so far
    nfin                      \* tasks whose cleanup block has run

workVars ==
    <<storage_client, task_queue, in_flight, stats, wpc, cur, run, pending,
      screenshots, collection, nenq, nfin>>

VARIABLES
    last_hwnd,                \* capture_loop: last_hwnd, 0 is None
    last_capture_time,        \* capture_loop: last_capture_time
    history_hashes,           \* capture_loop: history_hashes
    now,                      \* the clock, time.time()
    tick                      \* what the last tick of capture_loop did

schedVars == <<last_hwnd, last_capture_time, history_hashes, now, tick>>

VARIABLES
    USER_EXCLUDED_TITLES,     \* capture.USER_EXCLUDED_TITLES
    excl_call,                \* the last call of _is_excluded and what it returned
    upc,                      \* position of the thread in update_exclusion_settings
    uargs,                    \* the arguments of the running update_exclusion_settings
    epc,                      \* position of the tick that evaluates the policy
    seen,                     \* the settings that tick has read so far
    complete,                 \* the settings in force before and after each update
    nupd                      \* calls of update_exclusion_settings so far

filterVars ==
    <<USER_EXCLUDED_TITLES, excl_call, upc, uargs, epc, seen, complete, nupd>>

VARIABLES
    red_call,                 \* the last call of _is_redundant and what it returned
    fn_call,                  \* the last call of a search or delete function
    kpc,                      \* connection thread -> position in _client_handler
    kmsg,                     \* connection thread -> the message the client sent
    kreq,                     \* connection thread -> req, as handed to the handler
    kresp,                    \* connection thread -> resp
    kraised,                  \* connection thread -> the handler raised
    kwrites,                  \* connection thread -> WriteFile calls made
    ksent,                    \* connection thread -> responses the client received
    kopen,                    \* connection thread -> its handle is open
    nconn,                    \* connections accepted by _serve_loop so far
    ppc,                      \* position of the scheduler in pending_count
    pqsize,                   \* the qsize that call has read
    pvalue,                   \* what the last call of pending_count returned
    pspan,                    \* enqueued-and-unfinished counts during that call
    rpc,                      \* caller -> position in OCREngine.recognize
    rout,                     \* caller -> how its last predict ended
    inference_lock,           \* OCREngine._inference_lock is held
    nrec                      \* calls of recognize so far

callVars ==
    <<red_call, fn_call, kpc, kmsg, kreq, kresp, kraised, kwrites, ksent, kopen, nconn,
      ppc, pqsize, pvalue, pspan, rpc, rout, inference_lock, nrec>>

\* the part of callVars that belongs to OCREngine.recognize
recVars == <<rpc, rout, inference_lock, nrec>>

\* the part of callVars that belongs to pending_count
pendVars == <<ppc, pqsize, pvalue, pspan>>

vars == <<chanVars, workVars, schedVars, filterVars, callVars>>

\* the state a command may change
Shared ==
    [last_seq_no |-> last_seq_no,
     paused_event |-> paused_event,
     stop_event |-> stop_event,
     worker_pause_event |-> worker_pause_event,
     worker_stop_event |-> worker_stop_event,
     processes |-> USER_EXCLUDED_PROCESSES,
     ignore_protected |-> IGNORE_PROTECTED_WINDOWS]

ChanInit ==
    /\ auth_token = Token
    /\ last_seq_no = -1
    /\ ocr_worker = FALSE
    /\ paused_event = FALSE
    /\ stop_event = FALSE
    /\ worker_pause_event = FALSE
    /\ worker_stop_event = FALSE
    /\ USER_EXCLUDED_PROCESSES = {}
    /\ IGNORE_PROTECTED_WINDOWS = TRUE
    /\ hpc = [t \in Threads |-> "idle"]
    /\ hreq = [t \in Threads |-> NoReq]
    /\ hresp = [t \in Threads |-> NoResp]
    /\ hexec = [t \in Threads |-> "none"]
    /\ hsnap = [t \in Threads |-> Shared]
    /\ accepted = <<>>
    /\ nreqs = 0

\* no task held; id 0 and screenshot_id 0 are None
NoTask == [id |-> 0, image_hash |-> "", screenshot_id |-> 0]

\* no run of process_image_from_memory recorded
NoRun == [calls |-> <<>>, staged |-> 0, result |-> "none", raised |-> FALSE,
          recognized |-> FALSE, save_status |-> "none", db_status |-> "none",
          existed |-> FALSE, index |-> "none", commit_reply |-> "none"]

\* ScreenshotOCRWorker.__init__: empty queue, nothing in flight, zero stats
WorkInit ==
    /\ task_queue = <<>>
    /\ in_flight = 0
    /\ stats = [processed_count |-> 0, failed_count |-> 0]
    /\ wpc = "loop"
    /\ cur = NoTask
    /\ run = NoRun
    /\ pending = {}
    /\ screenshots = {}
    /\ collection = <<>>
    /\ nenq = 0
    /\ nfin = 0

\* _capture_window_image_data returned no image
NoFrame == [dhash |-> {}, image_hash |-> ""]

\* the record of one tick; hwnd is the window the exclusion check saw and
\* captured the window the pixels were taken from, 0 when there is none;
\* raised tells where the capture block raised
TickLog(kind, changed, pend, due, should, reason, frame, redundant, enqueued) ==
    [kind |-> kind, changed |-> changed, pending |-> pend, due |-> due,
     should_capture |-> should, scan_reason |-> reason, frame |-> frame,
     redundant |-> redundant, enqueued |-> enqueued, hwnd |-> 0, captured |-> 0,
     raised |-> "none"]

NoTick == TickLog("none", FALSE, 0, FALSE, FALSE, "", NoFrame, FALSE, FALSE)

\* capture_loop before its first tick; the clock is past the first interval,
\* as time.time() is against last_capture_time = 0
SchedInit ==
    /\ last_hwnd = 0
    /\ last_capture_time = 0
    /\ history_hashes = <<>>
    /\ now = INTERVAL
    /\ tick = NoTick

\* get_exclusion_settings: the three user settings together
ExclusionSettings ==
    [processes |-> USER_EXCLUDED_PROCESSES,
     titles |-> USER_EXCLUDED_TITLES,
     ignore_protected |-> IGNORE_PROTECTED_WINDOWS]

\* no call of _is_excluded recorded; hwnd 0 and process_name "" are None,
\* settings are the ones in force when the call was made
NoCall ==
    [title |-> <<>>, hwnd |-> 0, process_name |-> "", result |-> "none",
     settings |-> [processes |-> {}, titles |-> {}, ignore_protected |-> TRUE]]

\* update_exclusion_settings called with every argument left at None
NoArgs == [processes |-> Absent, titles |-> Absent, ignore_protected |-> Absent]

\* a tick that has read none of the settings yet
NoSeen ==
    [filter_processes |-> {}, titles |-> {}, ignore_protected |-> FALSE,
     processes |-> {}]

\* the module-level defaults of the user settings, nothing evaluated yet
FilterInit ==
    /\ USER_EXCLUDED_TITLES = {}
    /\ excl_call = NoCall
    /\ upc = "idle"
    /\ uargs = NoArgs
    /\ epc = "idle"
    /\ seen = NoSeen
    /\ complete = {ExclusionSettings}
    /\ nupd = 0

\* no call of _is_redundant recorded
NoRedundantCall == [current_hash |-> {}, history |-> <<>>, result |-> "none"]

\* no call of a search or delete function recorded
NoFnCall == [fn |-> "none"]

\* none of the functions below has been called
CallInit ==
    /\ red_call = NoRedundantCall
    /\ fn_call = NoFnCall
    /\ kpc = [t \in Threads |-> "idle"]
    /\ kmsg = [t \in Threads |-> "none"]
    /\ kreq = [t \in Threads |-> "none"]
    /\ kresp = [t \in Threads |-> "none"]
    /\ kraised = [t \in Threads |-> FALSE]
    /\ kwrites = [t \in Threads |-> 0]
    /\ ksent = [t \in Threads |-> 0]
    /\ kopen = [t \in Threads |-> FALSE]
    /\ nconn = 0
    /\ ppc = "idle"
    /\ pqsize = 0
    /\ pvalue = 0
    /\ pspan = {}
    /\ rpc = [c \in {0} \cup Threads |-> "idle"]
    /\ rout = [c \in {0} \cup Threads |-> "none"]
    /\ inference_lock = FALSE
    /\ nrec = 0

(***************************************************************************)
(* _NamedPipeServer: one thread per connection, each running               *)
(* _handle_command on the request it read.                                 *)
(***************************************************************************)
AllIdle == \A t \in Threads : hpc[t] = "idle"

\* _serve_loop accepts a connection and starts _client_handler, which reads
\* the request and calls the handler
Connect(t, req) ==
    /\ hpc[t] = "idle"
    /\ nreqs < MaxReqs
    /\ hpc' = [hpc EXCEPT ![t] = "token"]
    /\ hreq' = [hreq EXCEPT ![t] = req]
    /\ hresp' = [hresp EXCEPT ![t] = NoResp]
    /\ hexec' = [hexec EXCEPT ![t] = "none"]
    /\ hsnap' = [hsnap EXCEPT ![t] = Shared]
    /\ nreqs' = nreqs + 1
    /\ UNCHANGED <<auth_token, last_seq_no, ocr_worker, paused_event, stop_event,
                   worker_pause_event, worker_stop_event, USER_EXCLUDED_PROCESSES,
                   IGNORE_PROTECTED_WINDOWS, accepted>>

\* return resp: the handler is left with its response
Return(t, resp) ==
    /\ hpc' = [hpc EXCEPT ![t] = "reply"]
    /\ hresp' = [hresp EXCEPT ![t] = resp]

\* a token check that lets a request without a token through
TokenRejectedIfPresent(req) ==
    auth_token # "" /\ req.token # "absent" /\ req.token # auth_token

\* if _auth_token and req_token != _auth_token: return error
TokenRejected(req) == auth_token # "" /\ req.token # auth_token

CheckToken(t) ==
    /\ hpc[t] = "token"
    /\ IF TokenRejected(hreq[t])
       THEN Return(t, InvalidToken)
       ELSE /\ hpc' = [hpc EXCEPT ![t] = "seq"]
            /\ UNCHANGED hresp
    /\ UNCHANGED <<auth_token, last_seq_no, ocr_worker, paused_event, stop_event,
                   worker_pause_event, worker_stop_event, USER_EXCLUDED_PROCESSES,
                   IGNORE_PROTECTED_WINDOWS, hreq, hexec, hsnap, accepted, nreqs>>

\* a replay check that accepts the last accepted number again
SeqRejectedStrict(seq, last) == seq < last

\* if req_seq_no <= _last_seq_no
SeqRejected(seq, last) == seq <= last

\* a replay check that takes a missing number for the number 0
HasSeqAlways(req) == TRUE

\* if req_seq_no is not None
HasSeq(req) == req.has_seq

\* the read and the comparison of _last_seq_no
CheckSeq(t) ==
    /\ hpc[t] = "seq"
    /\ IF HasSeq(hreq[t])
       THEN IF SeqRejected(hreq[t].seq, last_seq_no)
            THEN Return(t, InvalidSeq(hreq[t].seq, last_seq_no))
            ELSE /\ hpc' = [hpc EXCEPT ![t] = "write"]
                 /\ UNCHANGED hresp
       ELSE /\ hpc' = [hpc EXCEPT ![t] = "dispatch"]
            /\ UNCHANGED hresp
    /\ UNCHANGED <<auth_token, last_seq_no, ocr_worker, paused_event, stop_event,
                   worker_pause_event, worker_stop_event, USER_EXCLUDED_PROCESSES,
                   IGNORE_PROTECTED_WINDOWS, hreq, hexec, hsnap, accepted, nreqs>>

\* _last_seq_no = req_seq_no
WriteSeq(t) ==
    /\ hpc[t] = "write"
    /\ last_seq_no' = hreq[t].seq
    /\ accepted' = Append(accepted, hreq[t].seq)
    /\ hpc' = [hpc EXCEPT ![t] = "dispatch"]
    /\ UNCHANGED <<auth_token, ocr_worker, paused_event, stop_event,
                   worker_pause_event, worker_stop_event, USER_EXCLUDED_PROCESSES,
                   IGNORE_PROTECTED_WINDOWS, hreq, hresp, hexec, hsnap, nreqs>>

\* filters.get('processes') or req.get('processes'): an empty list is falsy
\* and the request carries no top-level list, so only a non-empty list counts
ProcessesArg(req) == IF req.processes = "raw" THEN "raw" ELSE Absent

\* update_exclusion_settings followed by the success response
UpdateFilters(t) ==
    /\ USER_EXCLUDED_PROCESSES' =
           IF ProcessesArg(hreq[t]) # Absent
           THEN NormProcesses(ProcessesArg(hreq[t]))
           ELSE USER_EXCLUDED_PROCESSES
    /\ IGNORE_PROTECTED_WINDOWS' =
           IF hreq[t].ignore_protected # Absent
           THEN hreq[t].ignore_protected = "true"
           ELSE IGNORE_PROTECTED_WINDOWS
    /\ Return(t, Response("ok", "success", 0, 0))
    /\ UNCHANGED <<paused_event, stop_event>>

\* the first statement of the branch cmd selects
Dispatch(t) ==
    /\ hpc[t] = "dispatch"
    /\ hexec' = [hexec EXCEPT ![t] = hreq[t].command]
    /\ CASE hreq[t].command = "pause" ->
                /\ paused_event' = TRUE
                /\ hpc' = [hpc EXCEPT ![t] = "worker"]
                /\ UNCHANGED <<stop_event, hresp, USER_EXCLUDED_PROCESSES,
                               IGNORE_PROTECTED_WINDOWS>>
         [] hreq[t].command = "resume" ->
                /\ paused_event' = FALSE
                /\ hpc' = [hpc EXCEPT ![t] = "worker"]
                /\ UNCHANGED <<stop_event, hresp, USER_EXCLUDED_PROCESSES,
                               IGNORE_PROTECTED_WINDOWS>>
         [] hreq[t].command = "stop" ->
                /\ stop_event' = TRUE
                /\ hpc' = [hpc EXCEPT ![t] = "stop_clear"]
                /\ UNCHANGED <<paused_event, hresp, USER_EXCLUDED_PROCESSES,
                               IGNORE_PROTECTED_WINDOWS>>
         [] hreq[t].command = "status" ->
                /\ Return(t, Response("ok", "status",
                                      IF paused_event THEN 1 ELSE 0,
                                      IF stop_event THEN 1 ELSE 0))
                /\ UNCHANGED <<paused_event, stop_event, USER_EXCLUDED_PROCESSES,
                               IGNORE_PROTECTED_WINDOWS>>
         [] hreq[t].command = "update_filters" -> UpdateFilters(t)
         [] hreq[t].command = "number" ->
                \* (req.get('command') or '').lower() raises AttributeError,
                \* which _client_handler turns into the error payload
                /\ Return(t, Response("error",
                                      "'int' object has no attribute 'lower'", 0, 0))
                /\ UNCHANGED <<paused_event, stop_event, USER_EXCLUDED_PROCESSES,
                               IGNORE_PROTECTED_WINDOWS>>
         [] OTHER ->
                /\ Return(t, Response("error", "unknown command", 0, 0))
                /\ UNCHANGED <<paused_event, stop_event, USER_EXCLUDED_PROCESSES,
                               IGNORE_PROTECTED_WINDOWS>>
    /\ UNCHANGED <<auth_token, last_seq_no, ocr_worker, worker_pause_event,
                   worker_stop_event, hreq, hsnap, accepted, nreqs>>

\* stop: paused_event.clear() after stop_event.set()
StopClear(t) ==
    /\ hpc[t] = "stop_clear"
    /\ paused_event' = FALSE
    /\ hpc' = [hpc EXCEPT ![t] = "worker"]
    /\ UNCHANGED <<auth_token, last_seq_no, ocr_worker, stop_event,
                   worker_pause_event, worker_stop_event, USER_EXCLUDED_PROCESSES,
                   IGNORE_PROTECTED_WINDOWS, hreq, hresp, hexec, hsnap, accepted,
                   nreqs>>

\* if _ocr_worker: _ocr_worker.pause() / resume() / stop(); then the status
DispatchWorker(t) ==
    /\ hpc[t] = "worker"
    /\ worker_pause_event' =
           IF ocr_worker /\ hreq[t].command = "pause" THEN TRUE
           ELSE IF ocr_worker /\ hreq[t].command = "resume" THEN FALSE
           ELSE worker_pause_event
    /\ worker_stop_event' =
           IF ocr_worker /\ hreq[t].command = "stop" THEN TRUE
           ELSE worker_stop_event
    /\ Return(t, Response("ok",
                          CASE hreq[t].command = "pause" -> "paused"
                            [] hreq[t].command = "resume" -> "resumed"
                            [] OTHER -> "stopped",
                          0, 0))
    /\ UNCHANGED <<auth_token, last_seq_no, ocr_worker, paused_event, stop_event,
                   USER_EXCLUDED_PROCESSES, IGNORE_PROTECTED_WINDOWS, hreq, hexec,
                   hsnap, accepted, nreqs>>

\* _client_handler writes the response and closes the handle
Reply(t) ==
    /\ hpc[t] = "reply"
    /\ hpc' = [hpc EXCEPT ![t] = "idle"]
    /\ hreq' = [hreq EXCEPT ![t] = NoReq]
    /\ hresp' = [hresp EXCEPT ![t] = NoResp]
    /\ hexec' = [hexec EXCEPT ![t] = "none"]
    /\ hsnap' = [hsnap EXCEPT ![t] = Shared]
    /\ UNCHANGED <<auth_token, last_seq_no, ocr_worker, paused_event, stop_event,
                   worker_pause_event, worker_stop_event, USER_EXCLUDED_PROCESSES,
                   IGNORE_PROTECTED_WINDOWS, accepted, nreqs>>

\* start() creates the worker after the pipe server is already serving
CreateWorker ==
    /\ ~ocr_worker
    /\ ocr_worker' = TRUE
    /\ worker_pause_event' = FALSE
    /\ worker_stop_event' = FALSE
    /\ UNCHANGED <<auth_token, last_seq_no, paused_event, stop_event,
                   USER_EXCLUDED_PROCESSES, IGNORE_PROTECTED_WINDOWS, hpc, hreq,
                   hresp, hexec, hsnap, accepted, nreqs>>

HandlerStep(t) ==
    \/ CheckToken(t)
    \/ CheckSeq(t)
    \/ WriteSeq(t)
    \/ Dispatch(t)
    \/ StopClear(t)
    \/ DispatchWorker(t)
    \/ Reply(t)

(***************************************************************************)
(* SpecSeq: the requests are handled one after another.                    *)
(***************************************************************************)
\* the threads are interchangeable: the one connection at a time is served by
\* thread 1
SeqConnect ==
    /\ \E req \in Requests : AllIdle /\ Connect(1, req)
    /\ UNCHANGED <<workVars, schedVars, filterVars, callVars>>

SeqStep == HandlerStep(1) /\ UNCHANGED <<workVars, schedVars, filterVars, callVars>>

SeqCreate == CreateWorker /\ UNCHANGED <<workVars, schedVars, filterVars, callVars>>

SeqNext == SeqConnect \/ SeqStep \/ SeqCreate

\* the pipe server is serving; start() has not yet created the worker
Init == ChanInit /\ storage_client = TRUE /\ WorkInit /\ SchedInit /\ FilterInit /\ CallInit

SpecSeq == Init /\ [][SeqNext]_vars

(***************************************************************************)
(* SpecConc: the handler threads of several connections interleave.        *)
(***************************************************************************)
\* the requests of the concurrent runs: valid token, a sequence number
ConcRequests ==
    { r \in Requests : r.token = Token /\ r.has_seq
                       /\ r.command \in {"pause", "resume", "stop"} }

ConcConnect ==
    /\ \E t \in Threads, req \in ConcRequests : Connect(t, req)
    /\ UNCHANGED <<workVars, schedVars, filterVars, callVars>>

ConcStep == (\E t \in Threads : HandlerStep(t)) /\ UNCHANGED <<workVars, schedVars, filterVars, callVars>>

ConcCreate == CreateWorker /\ UNCHANGED <<workVars, schedVars, filterVars, callVars>>

ConcNext == ConcConnect \/ ConcStep \/ ConcCreate

SpecConc == Init /\ [][ConcNext]_vars

(***************************************************************************)
(* ScreenshotOCRWorker: the task queue, the worker thread and the          *)
(* persistence of one frame.                                               *)
(***************************************************************************)
\* the content hashes (_compute_bytes_hash) of the frames
Hashes == {"h1", "h2", "h3"}

\* a queue entry; screenshot_id 0 is None, as the capture callback passes none
Task(n, h) == [id |-> n, image_hash |-> h, screenshot_id |-> 0]

\* what the collaborators of one process_image_from_memory run answer
Outcomes ==
    [stage : {"success", "error", "raise"},
     recognize : {"ok", "raise"},
     commit : {"success", "no_status", "error", "raise"},
     abort : {"ok", "raise"},
     save : {"ok", "error"},
     add : {"ok", "raise"},
     callback : {"none", "raise"}]

\* the record of one run: the calls made in order, the staged id in use,
\* result['success'], whether an exception left the function, whether the
\* recognition and the confidence filter completed, the status of
\* storage_result, the status of db_result, whether the hash was stored before, how the index write ended,
\* what was added to processed_count and failed_count
Ended(calls, sid, res, db, existed, pend, rows, coll) ==
    [calls |-> calls, staged |-> sid, result |-> res, raised |-> FALSE,
     recognized |-> TRUE, save_status |-> "none",
     db_status |-> db, existed |-> existed, index |-> "none",
     commit_reply |-> "none", processed |-> 0, failed |-> 0,
     pending |-> pend, screenshots |-> rows, collection |-> coll]

RunLog(e) ==
    [calls |-> e.calls, staged |-> e.staged, result |-> e.result,
     raised |-> e.raised, recognized |-> e.recognized,
     save_status |-> e.save_status, db_status |-> e.db_status,
     existed |-> e.existed, index |-> e.index, commit_reply |-> e.commit_reply]

\* the number of times a call occurs in a run
Count(calls, name) == Cardinality({ i \in 1..Len(calls) : calls[i] = name })

\* pending_count(): qsize plus the in-flight count
PendingCount == Len(task_queue) + in_flight

\* screenshot_exists: a row with this image_hash
ScreenshotExists(rows, h) == \E r \in rows : r.image_hash = h

\* a relational store that inserts without looking for the hash
AddScreenshotUnchecked(rows, n, h) == rows \cup {[id |-> n, image_hash |-> h]}

\* add_screenshot: no insert when the hash is already there
AddScreenshot(rows, n, h) ==
    IF ScreenshotExists(rows, h) THEN rows
    ELSE rows \cup {[id |-> n, image_hash |-> h]}

\* save_ocr_data: the status returned for a hash
SaveStatus(rows, h) == IF ScreenshotExists(rows, h) THEN "duplicate" ELSE "success"

\* real_image_path: db_result carries no image_path, so the memory:// form
RealImagePath(image_path, h) ==
    IF image_path # "" THEN [scheme |-> "file", key |-> image_path]
    ELSE [scheme |-> "memory", key |-> h]

\* _compute_id: md5 of the path, one id per path
ComputeId(path) == path

\* the ids in the collection
Ids(coll) == { coll[i] : i \in 1..Len(coll) }

\* an add_image that adds without looking for the id
AddImageUnchecked(coll, path, reply) ==
    IF reply = "ok" THEN Append(coll, ComputeId(path)) ELSE coll

\* add_image: skipped when the id exists; a failing collection.add is logged
AddImage(coll, path, reply) ==
    IF ComputeId(path) \in Ids(coll) THEN coll
    ELSE IF reply = "ok" THEN Append(coll, ComputeId(path)) ELSE coll

\* storage service, stage: a stored hash is not staged again
StageReply(rows, h, reply) ==
    IF reply = "success" /\ ScreenshotExists(rows, h) THEN "duplicate" ELSE reply

\* storage service, commit: the staged frame becomes a stored record
CommitScreenshot(rows, sid, h) == AddScreenshot(rows, sid, h)

\* storage service, abort: the staged frame is released
AbortScreenshot(pend, sid, reply) == IF reply = "ok" THEN pend \ {sid} ELSE pend

\* a failure that is counted as processed as well
FailedAndProcessed(o, calls, sid, existed, pend, rows) ==
    [Ended(IF o.callback = "raise" THEN calls \o <<"on_error">> ELSE calls,
           sid, "failure", "none", existed, pend, rows, collection)
     EXCEPT !.failed = 1, !.processed = 1, !.raised = o.callback = "raise"]

\* the except branch of process_image_from_memory: failed_count goes up by
\* one and the on_error callback, when one is set, is called and may raise
Failed(o, calls, sid, existed, pend, rows) ==
    [Ended(IF o.callback = "raise" THEN calls \o <<"on_error">> ELSE calls,
           sid, "failure", "none", existed, pend, rows, collection)
     EXCEPT !.failed = 1, !.raised = o.callback = "raise"]

\* how add_image ends for a path: the id is there, the add succeeds, or the
\* encoding or collection.add raises
IndexOutcome(coll, path, reply) ==
    IF ComputeId(path) \in Ids(coll) THEN "exists" ELSE reply

\* an index write whose failure fails the frame
IndexOrFail(task, o, calls, sid, db, existed, pend, rows) ==
    LET path == RealImagePath("", task.image_hash)
        c == calls \o <<"add_image">>
    IN IF IndexOutcome(collection, path, o.add) = "raise"
       THEN Failed(o, c, sid, existed, pend, rows)
       ELSE [Ended(IF o.callback = "raise" THEN c \o <<"on_ocr_complete">> ELSE c,
                   sid, "success", db, existed, pend, rows,
                   AddImage(collection, path, o.add))
             EXCEPT !.processed = 1, !.raised = o.callback = "raise",
                    !.index = IndexOutcome(collection, path, o.add)]

\* the index write after db_result is set: its failure is logged, the run
\* succeeds, processed_count goes up by one and the on_ocr_complete
\* callback, when one is set, is called and may raise
IndexAndSucceed(task, o, calls, sid, db, existed, pend, rows) ==
    LET path == RealImagePath("", task.image_hash)
        c == calls \o <<"add_image">>
    IN [Ended(IF o.callback = "raise" THEN c \o <<"on_ocr_complete">> ELSE c,
              sid, "success", db, existed, pend, rows,
              AddImage(collection, path, o.add))
        EXCEPT !.processed = 1, !.raised = o.callback = "raise",
               !.index = IndexOutcome(collection, path, o.add)]

\* a direct save that takes only the success status
StatusAcceptedSuccessOnly(st) == st = "success"

\* the direct save: success and duplicate become db_result, the rest raises
StatusAccepted(st) == st \in {"success", "duplicate"}

\* a storage block that never commits
UseCommitNever(sid) == FALSE

\* if screenshot_id: commit, else the direct save
UseCommit(sid) == sid # 0

\* a commit whose reply is never taken for a success
CommitAcceptedNever(st) == FALSE

\* commit_result.get('status') == 'success' or ... is None: the reply counts
\* as a success when its status is success or when it carries no status
CommitAccepted(st) == st \in {"success", "no_status"}

\* the storage block: commit of a staged id, or the direct save
Persist(task, o, calls, sid, existed, pend) ==
    LET h == task.image_hash
    IN IF ~storage_client
       THEN Failed(o, calls, sid, existed, pend, screenshots)
       ELSE IF UseCommit(sid)
       THEN [CASE CommitAccepted(o.commit) ->
                     IndexAndSucceed(task, o, calls \o <<"commit">>, sid, o.commit,
                                     existed, pend \ {sid},
                                     CommitScreenshot(screenshots, sid, h))
               [] o.commit = "error" ->
                     Failed(o, calls \o <<"commit", "abort", "abort">>, sid, existed,
                            AbortScreenshot(AbortScreenshot(pend, sid, o.abort),
                                            sid, o.abort),
                            screenshots)
               [] OTHER ->
                     Failed(o, calls \o <<"commit", "abort">>, sid, existed,
                            AbortScreenshot(pend, sid, o.abort), screenshots)
             EXCEPT !.commit_reply = o.commit]
       ELSE LET st == IF o.save = "ok" THEN SaveStatus(screenshots, h)
                      ELSE "error"
                rows == IF o.save = "ok"
                        THEN AddScreenshot(screenshots, task.id, h)
                        ELSE screenshots
            IN IF StatusAccepted(st)
               THEN [IndexAndSucceed(task, o, calls \o <<"save">>, sid, st,
                                     existed, pend, rows)
                     EXCEPT !.save_status = st]
               ELSE [Failed(o, calls \o <<"save">>, sid, existed, pend, rows)
                     EXCEPT !.save_status = st]

\* process_image_from_memory: stage when there is a client and no id yet,
\* recognize, then the storage block
ProcessImageFromMemory(task, o) ==
    LET h == task.image_hash
        existed == ScreenshotExists(screenshots, h)
        tryStage == storage_client /\ task.screenshot_id = 0
        reply == IF tryStage THEN StageReply(screenshots, h, o.stage) ELSE "none"
        sid == IF task.screenshot_id # 0 THEN task.screenshot_id
               ELSE IF reply = "success" THEN task.id ELSE 0
        pend == IF reply = "success" THEN pending \cup {sid} ELSE pending
        calls == IF tryStage THEN <<"stage", "recognize">> ELSE <<"recognize">>
    IN IF o.recognize = "raise"
       THEN [Failed(o, calls, sid, existed, pend, screenshots)
             EXCEPT !.recognized = FALSE]
       ELSE Persist(task, o, calls, sid, existed, pend)

\* without a storage client only the recognizer and the callback are called
OutcomesRead ==
    IF storage_client THEN Outcomes
    ELSE { o \in Outcomes : /\ o.stage = "raise" /\ o.commit = "raise"
                            /\ o.abort = "raise" /\ o.save = "error"
                            /\ o.add = "raise" }

\* a cleanup block that leaves the in-flight count as it is
UnmarkNever(n) == n

\* the finally block of _worker_loop: the in-flight count goes down, not below 0
Unmark(n) == IF n > 0 THEN n - 1 ELSE 0

\* queue_image_from_memory: put, never waiting for the worker
QueueImageFromMemory(h) ==
    /\ nenq < MaxTasks
    /\ task_queue' = Append(task_queue, Task(nenq + 1, h))
    /\ nenq' = nenq + 1
    /\ UNCHANGED <<storage_client, in_flight, stats, wpc, cur, run, pending,
                   screenshots, collection, nfin>>

\* the head of the outer loop: stop ends the thread, pause sleeps and retries
WorkerLoop ==
    /\ wpc = "loop"
    /\ wpc' = IF worker_stop_event THEN "stopped"
              ELSE IF worker_pause_event THEN "loop" ELSE "drain"
    /\ UNCHANGED <<storage_client, task_queue, in_flight, stats, cur, run, pending,
                   screenshots, collection, nenq, nfin>>

\* a queue that hands out its newest entry
GetNewest(q) == [task |-> q[Len(q)], rest |-> SubSeq(q, 1, Len(q) - 1)]

\* Queue.get_nowait: the oldest entry leaves the queue
GetNowait(q) == [task |-> Head(q), rest |-> Tail(q)]

\* the head of the inner loop: get_nowait while the queue is not empty, else
\* wait and go back to the outer loop
WorkerDrain ==
    /\ wpc = "drain"
    /\ IF task_queue = <<>>
       THEN wpc' = "loop" /\ UNCHANGED <<task_queue, cur>>
       ELSE /\ cur' = GetNowait(task_queue).task
            /\ task_queue' = GetNowait(task_queue).rest
            /\ wpc' = "got"
    /\ UNCHANGED <<storage_client, in_flight, stats, run, pending, screenshots,
                   collection, nenq, nfin>>

\* the task is marked in flight
WorkerMark ==
    /\ wpc = "got"
    /\ in_flight' = in_flight + 1
    /\ wpc' = "process"
    /\ UNCHANGED <<storage_client, task_queue, stats, cur, run, pending,
                   screenshots, collection, nenq, nfin>>

\* the task is processed
WorkerProcess ==
    /\ wpc = "process"
    /\ \E o \in OutcomesRead :
        LET e == ProcessImageFromMemory(cur, o)
        IN /\ run' = RunLog(e)
           /\ pending' = e.pending
           /\ screenshots' = e.screenshots
           /\ collection' = e.collection
           /\ stats' = [processed_count |-> stats.processed_count + e.processed,
                        failed_count |-> stats.failed_count + e.failed]
    /\ wpc' = "cleanup"
    /\ UNCHANGED <<storage_client, task_queue, in_flight, cur, nenq, nfin>>

\* the finally block, then the inner loop again
WorkerCleanup ==
    /\ wpc = "cleanup"
    /\ in_flight' = Unmark(in_flight)
    /\ nfin' = nfin + 1
    /\ cur' = NoTask
    /\ run' = NoRun
    /\ wpc' = "drain"
    /\ UNCHANGED <<storage_client, task_queue, stats, pending, screenshots,
                   collection, nenq>>

\* ScreenshotOCRWorker.pause, resume and stop
WorkerPause ==
    /\ ~worker_pause_event
    /\ worker_pause_event' = TRUE
    /\ UNCHANGED worker_stop_event

WorkerResume ==
    /\ worker_pause_event
    /\ worker_pause_event' = FALSE
    /\ UNCHANGED worker_stop_event

WorkerStop ==
    /\ ~worker_stop_event
    /\ worker_stop_event' = TRUE
    /\ UNCHANGED worker_pause_event

\* what the worker's own steps leave alone
chanRest ==
    <<auth_token, last_seq_no, ocr_worker, paused_event, stop_event,
      USER_EXCLUDED_PROCESSES, IGNORE_PROTECTED_WINDOWS, hpc, hreq, hresp,
      hexec, hsnap, accepted, nreqs>>

workerEvents == <<worker_pause_event, worker_stop_event>>

(***************************************************************************)
(* SpecWorker: frames are queued while the worker thread runs and is       *)
(* paused, resumed and stopped.                                            *)
(***************************************************************************)
\* the state after start(): the worker exists and its thread is running
StartedInit ==
    /\ auth_token = Token
    /\ last_seq_no = -1
    /\ ocr_worker = TRUE
    /\ paused_event = FALSE
    /\ stop_event = FALSE
    /\ worker_pause_event = FALSE
    /\ worker_stop_event = FALSE
    /\ USER_EXCLUDED_PROCESSES = {}
    /\ IGNORE_PROTECTED_WINDOWS = TRUE
    /\ hpc = [t \in Threads |-> "idle"]
    /\ hreq = [t \in Threads |-> NoReq]
    /\ hresp = [t \in Threads |-> NoResp]
    /\ hexec = [t \in Threads |-> "none"]
    /\ hsnap = [t \in Threads |-> Shared]
    /\ accepted = <<>>
    /\ nreqs = 0

WEnqueue ==
    /\ \E h \in Hashes : QueueImageFromMemory(h)
    /\ UNCHANGED <<chanRest, workerEvents, schedVars, filterVars, callVars>>

WLoop == WorkerLoop /\ UNCHANGED <<chanRest, workerEvents, schedVars, filterVars, callVars>>

WDrain == WorkerDrain /\ UNCHANGED <<chanRest, workerEvents, schedVars, filterVars, callVars>>

WMark == WorkerMark /\ UNCHANGED <<chanRest, workerEvents, schedVars, filterVars, callVars>>

WProcess == WorkerProcess /\ UNCHANGED <<chanRest, workerEvents, schedVars, filterVars, callVars>>

WCleanup == WorkerCleanup /\ UNCHANGED <<chanRest, workerEvents, schedVars, filterVars, callVars>>

WPause == WorkerPause /\ UNCHANGED <<chanRest, workVars, schedVars, filterVars, callVars>>

WResume == WorkerResume /\ UNCHANGED <<chanRest, workVars, schedVars, filterVars, callVars>>

WStop == WorkerStop /\ UNCHANGED <<chanRest, workVars, schedVars, filterVars, callVars>>

WorkerNext ==
    \/ WEnqueue
    \/ WLoop
    \/ WDrain
    \/ WMark
    \/ WProcess
    \/ WCleanup
    \/ WPause
    \/ WResume
    \/ WStop

\* the worker runs with or without a storage client
WorkerInit == StartedInit /\ storage_client \in BOOLEAN /\ WorkInit /\ SchedInit /\ FilterInit /\ CallInit

SpecWorker == WorkerInit /\ [][WorkerNext]_vars

(***************************************************************************)
(* SpecReject: two connections are served side by side, with any token     *)
(* and any sequence number, so that two responses can be compared.         *)
(***************************************************************************)
\* a rejection comes before the command is read: one command is enough
RejectRequests == {r \in Requests : r.command = "status"}

RejectConnect ==
    /\ \E t \in Threads, req \in RejectRequests : Connect(t, req)
    /\ UNCHANGED <<workVars, schedVars, filterVars, callVars>>

RejectStep ==
    /\ \E t \in Threads : HandlerStep(t)
    /\ UNCHANGED <<workVars, schedVars, filterVars, callVars>>

RejectNext == RejectConnect \/ RejectStep

\* start() has returned: the pipe server is serving and the worker exists
RejectInit ==
    StartedInit /\ storage_client = FALSE /\ WorkInit /\ SchedInit /\ FilterInit /\ CallInit

SpecReject == RejectInit /\ [][RejectNext]_vars

(***************************************************************************)
(* capture_loop: the capture scheduler.                                    *)
(***************************************************************************)
\* the window handles; 0 is no window
Hwnds == {1, 2, 3}

\* every handle a call may pass: 0 is None, 4 a window with a display
\* affinity, 5 a private browser window whose title shows no keyword
AllHwnds == 0..5

\* what Windows reports of a window: its title, as the sequence of its
\* words, its display affinity, the executable of its process and the
\* privacy flags on that process's command line, both in lower case
WindowInfo(hwnd) ==
    CASE hwnd = 1 -> [title |-> <<"Editor">>, protected |-> FALSE,
                      process |-> "code.exe", command_line |-> {}]
      [] hwnd = 2 -> [title |-> <<"Docs", "Chrome">>, protected |-> FALSE,
                      process |-> "chrome.exe", command_line |-> {}]
      [] hwnd = 3 -> [title |-> <<"New", "Incognito", "tab">>, protected |-> FALSE,
                      process |-> "chrome.exe", command_line |-> {"--incognito"}]
      [] hwnd = 4 -> [title |-> <<"Editor">>, protected |-> TRUE,
                      process |-> "bank.exe", command_line |-> {}]
      [] hwnd = 5 -> [title |-> <<"Docs", "Chrome">>, protected |-> FALSE,
                      process |-> "chrome.exe", command_line |-> {"--incognito"}]
      [] OTHER -> [title |-> <<>>, protected |-> FALSE, process |-> "",
                   command_line |-> {}]

\* the frames a capture can return: a dHash, given as the set of its 1 bits,
\* and the content hash of the encoded image
Frames ==
    {[dhash |-> {}, image_hash |-> "h1"],
     [dhash |-> 1..9, image_hash |-> "h2"],
     [dhash |-> 1..10, image_hash |-> "h3"]}

\* the seconds the clock advances between two readings of time.time()
TimeSteps == {1, 9}

\* _hamming_distance: the number of bits in which two hashes differ
HammingDistance(h1, h2) == Cardinality((h1 \ h2) \cup (h2 \ h1))

\* a comparison with the oldest entry of the history only
IsRedundantOldest(current_hash, history) ==
    /\ history # <<>>
    /\ HammingDistance(current_hash, Head(history)) < THRESHOLD

\* a comparison that also takes a distance equal to the threshold
RECURSIVE IsRedundantAtThreshold(_, _)
IsRedundantAtThreshold(current_hash, history) ==
    IF history = <<>> THEN FALSE
    ELSE IF HammingDistance(current_hash, Head(history)) <= THRESHOLD THEN TRUE
    ELSE IsRedundantAtThreshold(current_hash, Tail(history))

\* _is_redundant: False on an empty history, else the entries are walked
\* in order and the first one closer than the threshold returns True
RECURSIVE IsRedundant(_, _)
IsRedundant(current_hash, history) ==
    IF history = <<>> THEN FALSE
    ELSE IF HammingDistance(current_hash, Head(history)) < THRESHOLD THEN TRUE
    ELSE IsRedundant(current_hash, Tail(history))

\* the built-in lists of capture.py, two entries of each
EXCLUSION_KEYWORDS == {"InPrivate", "Incognito"}

EXCLUSION_TITLES == {"Search", "Program Manager"}

browser_keywords == {"edge", "chrome", "firefox", "browser"}

privacy_flags == {"--incognito", "-inprivate", "-private", "--private-window"}

\* the titles a call may pass, each the sequence of its words
Titles ==
    {<<>>, <<"Editor">>, <<"Docs", "Chrome">>, <<"New", "Incognito", "tab">>,
     <<"new", "incognito", "tab">>, <<"Search", "results">>, <<"My", "Search">>,
     <<"Top", "Secret">>}

\* the process names a call may pass; "" is None
ProcessNames == {"", "chrome.exe", "Chrome.EXE", "code.exe"}

\* str.lower on the words and names used here
Lower(w) ==
    CASE w = "Editor" -> "editor"
      [] w = "Docs" -> "docs"
      [] w = "Chrome" -> "chrome"
      [] w = "New" -> "new"
      [] w = "Incognito" -> "incognito"
      [] w = "Search" -> "search"
      [] w = "My" -> "my"
      [] w = "Top" -> "top"
      [] w = "Secret" -> "secret"
      [] w = "Chrome.EXE" -> "chrome.exe"
      [] w = "Hello" -> "hello"
      [] OTHER -> w

\* title.lower()
TitleLower(title) == [i \in 1..Len(title) |-> Lower(title[i])]

\* kw in title: the word occurs in the title, case as given
Contains(kw, title) == \E i \in 1..Len(title) : title[i] = kw

\* t == title or title.startswith(t)
StartsWith(title, t) == title = <<t>> \/ (Len(title) >= 1 /\ title[1] = t)

\* _is_window_protected: no handle, or the display affinity of the window
IsWindowProtected(hwnd) == hwnd # 0 /\ WindowInfo(hwnd).protected

\* _get_window_process_name
GetWindowProcessName(hwnd) == WindowInfo(hwnd).process

\* _get_window_process_command_line
GetWindowProcessCommandLine(hwnd) == WindowInfo(hwnd).command_line

\* _is_excluded(title, hwnd, process_name), its tests in the order of the code
is_excluded(title, hwnd, process_name) ==
    LET title_lower == TitleLower(title)
        pn == Lower(IF process_name # "" THEN process_name
                    ELSE GetWindowProcessName(hwnd))
        cmd_line == GetWindowProcessCommandLine(hwnd)
    IN IF title = <<>> THEN TRUE
       ELSE IF \E kw \in EXCLUSION_KEYWORDS : Contains(kw, title) THEN TRUE
       ELSE IF \E t \in EXCLUSION_TITLES : StartsWith(title, t) THEN TRUE
       ELSE IF \E user_kw \in USER_EXCLUDED_TITLES :
                   user_kw # "" /\ Contains(user_kw, title_lower) THEN TRUE
       ELSE IF hwnd = 0 THEN FALSE
       ELSE IF IGNORE_PROTECTED_WINDOWS /\ IsWindowProtected(hwnd) THEN TRUE
       ELSE IF /\ USER_EXCLUDED_PROCESSES # {}
               /\ pn # ""
               /\ pn \in USER_EXCLUDED_PROCESSES THEN TRUE
       ELSE IF /\ \E bk \in browser_keywords : Contains(bk, title_lower)
               /\ \E flag \in privacy_flags : flag \in cmd_line THEN TRUE
       ELSE FALSE

\* the exclusion check of one tick: capture_loop looks the process name up
\* when processes are excluded and there is a window, then calls _is_excluded
IsExcluded(hwnd) ==
    is_excluded(WindowInfo(hwnd).title, hwnd,
                IF USER_EXCLUDED_PROCESSES # {} /\ hwnd # 0
                THEN GetWindowProcessName(hwnd) ELSE "")

\* a backpressure test that already suppresses at MAX_PENDING
OverloadedAtLimit(n) == n >= MAX_PENDING

\* if pending > MAX_PENDING: the focus-change capture is skipped
Overloaded(n) == n > MAX_PENDING

\* history_hashes.append, then pop(0) above the capacity
PushHistory(history, h) ==
    LET a == Append(history, h)
    IN IF Len(a) > HISTORY_SIZE THEN Tail(a) ELSE a

\* the decision of a tick on a window that is not excluded
ShouldCapture(hwnd) ==
    LET pend == IF ocr_worker THEN PendingCount ELSE 0
    IN IF hwnd # last_hwnd
       THEN IF Overloaded(pend) THEN [should |-> FALSE, reason |-> ""]
            ELSE [should |-> TRUE, reason |-> "focus_change"]
       ELSE IF now - last_capture_time >= INTERVAL
       THEN [should |-> TRUE, reason |-> "interval"]
       ELSE [should |-> FALSE, reason |-> ""]

\* what _capture_window_image_data can return on a tick: the window active
\* at that moment and a frame or no image; it is called only on a capture
BodyCaptures(hwnd) ==
    IF ~IsExcluded(hwnd) /\ ShouldCapture(hwnd).should
    THEN [hwnd : Hwnds, frame : Frames, raised : {"none"}]
         \cup {[hwnd |-> hwnd, frame |-> NoFrame, raised |-> "none"]}
    ELSE {[hwnd |-> hwnd, frame |-> NoFrame, raised |-> "none"]}

\* a paused tick calls nothing
Captures(hwnd) ==
    IF ~paused_event THEN BodyCaptures(hwnd)
    ELSE {[hwnd |-> hwnd, frame |-> NoFrame, raised |-> "none"]}

\* the ways the capture block of a capturing tick may raise
Failures(hwnd) ==
    IF ~paused_event /\ ~IsExcluded(hwnd) /\ ShouldCapture(hwnd).should
    THEN {[hwnd |-> hwnd, frame |-> NoFrame, raised |-> "capture"]}
         \cup [hwnd : {hwnd}, frame : Frames, raised : {"handoff"}]
    ELSE {}

\* a capture block without the except clause
CaughtNever(raised) == raised = "none"

\* except Exception as e: print(...): whatever the capture block raises
\* is caught
Caught(raised) == TRUE

\* a loop that records the capture only when the frame was handed over
RecordedIfNew(got, red, raised) == got /\ ~red /\ raised = "none"

\* last_capture_time = now; last_hwnd = captured_hwnd: the last statements
\* under "if img_pil", after the redundancy branch, reached unless it raised
Recorded(got, red, raised) == got /\ raised = "none"

\* the iteration after its pause check: hwnd is the active window,
\* chwnd and frame what the capture finds; raised is
\* "capture" when taking the image raises and "handoff" when gathering the
\* process data or the callback raises, after the history was updated
TickBody(hwnd, chwnd, frame, raised) ==
    IF IsExcluded(hwnd)
    THEN /\ last_hwnd' = hwnd
         /\ tick' = [NoTick EXCEPT !.kind = "excluded", !.hwnd = hwnd]
         /\ UNCHANGED <<last_capture_time, history_hashes, task_queue, nenq>>
    ELSE LET d == ShouldCapture(hwnd)
             changed == hwnd # last_hwnd
             pend == IF ocr_worker THEN PendingCount ELSE 0
             due == now - last_capture_time >= INTERVAL
             got == d.should /\ frame # NoFrame
             red == got /\ IsRedundant(frame.dhash, history_hashes)
             enq == got /\ ~red /\ raised = "none"
         IN /\ raised = "handoff" => (got /\ ~red)
            /\ tick' = [TickLog(IF Caught(raised) THEN "decided" ELSE "crashed",
                                changed, pend, due, d.should,
                                d.reason, IF got THEN frame ELSE NoFrame,
                                red, enq)
                        EXCEPT !.hwnd = hwnd,
                               !.captured = IF got THEN chwnd ELSE 0,
                               !.raised = raised]
            /\ IF enq
               THEN /\ history_hashes' = PushHistory(history_hashes, frame.dhash)
                    /\ nenq < MaxTasks
                    /\ task_queue' = Append(task_queue,
                                            Task(nenq + 1, frame.image_hash))
                    /\ nenq' = nenq + 1
               ELSE /\ history_hashes' =
                           IF raised = "handoff"
                           THEN PushHistory(history_hashes, frame.dhash)
                           ELSE history_hashes
                    /\ UNCHANGED <<task_queue, nenq>>
            /\ IF Recorded(got, red, raised)
               THEN last_capture_time' = now /\ last_hwnd' = chwnd
               ELSE UNCHANGED <<last_capture_time, last_hwnd>>

\* if paused_event.is_set(): time.sleep(0.5); continue
TickPaused ==
    /\ tick' = [NoTick EXCEPT !.kind = "paused"]
    /\ UNCHANGED <<last_hwnd, last_capture_time, history_hashes, task_queue, nenq>>

\* one iteration of the while loop, taken as one step
Tick(hwnd, dt, chwnd, frame, raised) ==
    /\ ~stop_event
    /\ tick.kind # "crashed"
    /\ now <= MaxNow
    /\ now' = now + dt
    /\ IF paused_event THEN TickPaused ELSE TickBody(hwnd, chwnd, frame, raised)
    /\ UNCHANGED <<storage_client, in_flight, stats, wpc, cur, run, pending,
                   screenshots, collection, nfin>>

\* an accepted pause command: both pause flags are set
PauseAll ==
    /\ ~paused_event
    /\ paused_event' = TRUE
    /\ worker_pause_event' = TRUE

\* an accepted resume command: both pause flags are cleared
ResumeAll ==
    /\ paused_event
    /\ paused_event' = FALSE
    /\ worker_pause_event' = FALSE

chanNoPause ==
    <<auth_token, last_seq_no, ocr_worker, stop_event, worker_stop_event,
      USER_EXCLUDED_PROCESSES, IGNORE_PROTECTED_WINDOWS, hpc, hreq, hresp,
      hexec, hsnap, accepted, nreqs>>

(***************************************************************************)
(* SpecSched: the scheduler ticks while the worker, without a storage      *)
(* client, takes the queued frames.                                        *)
(***************************************************************************)
STick ==
    /\ \E hwnd \in Hwnds, dt \in TimeSteps :
          \E c \in Captures(hwnd) : Tick(hwnd, dt, c.hwnd, c.frame, c.raised)
    /\ UNCHANGED <<chanVars, filterVars, callVars>>

SPause == PauseAll /\ UNCHANGED <<chanNoPause, workVars, schedVars, filterVars, callVars>>

SResume == ResumeAll /\ UNCHANGED <<chanNoPause, workVars, schedVars, filterVars, callVars>>

SchedNext ==
    \/ STick
    \/ WLoop
    \/ WDrain
    \/ WMark
    \/ WProcess
    \/ WCleanup
    \/ SPause
    \/ SResume

\* no storage pipe was given to start()
SchedulerInit == StartedInit /\ storage_client = FALSE /\ WorkInit /\ SchedInit /\ FilterInit /\ CallInit

SpecSched == SchedulerInit /\ [][SchedNext]_vars

(***************************************************************************)
(* SpecTick: the scheduler alone, with capture blocks that raise.          *)
(***************************************************************************)
TCapture ==
    /\ \E hwnd \in Hwnds, dt \in TimeSteps :
          \E c \in Captures(hwnd) : Tick(hwnd, dt, c.hwnd, c.frame, c.raised)
    /\ UNCHANGED <<chanVars, filterVars, callVars>>

TRaise ==
    /\ \E hwnd \in Hwnds, dt \in TimeSteps :
          \E c \in Failures(hwnd) : Tick(hwnd, dt, c.hwnd, c.frame, c.raised)
    /\ UNCHANGED <<chanVars, filterVars, callVars>>

TickNext == TCapture \/ TRaise

TickInit ==
    StartedInit /\ storage_client = FALSE /\ WorkInit /\ SchedInit /\ FilterInit /\ CallInit

SpecTick == TickInit /\ [][TickNext]_vars

(***************************************************************************)
(* update_exclusion_settings and the Exclusion Policy.                     *)
(***************************************************************************)
\* the titles update_exclusion_settings stores for a list: stripped, lower
\* case, empty entries dropped
NormTitles(l) == IF l = "raw" THEN {"secret"} ELSE {}

\* the arguments a call of update_exclusion_settings may carry
UpdateArgs ==
    [processes : FilterLists, titles : FilterLists, ignore_protected : FilterFlags]

\* the settings in force once a call with these arguments has returned
Updated(args) ==
    [processes |-> IF args.processes # Absent
                   THEN NormProcesses(args.processes)
                   ELSE USER_EXCLUDED_PROCESSES,
     titles |-> IF args.titles # Absent
                THEN NormTitles(args.titles)
                ELSE USER_EXCLUDED_TITLES,
     ignore_protected |-> IF args.ignore_protected # Absent
                          THEN args.ignore_protected = "true"
                          ELSE IGNORE_PROTECTED_WINDOWS]

\* update_exclusion_settings is entered
UpdateBegin(args) ==
    /\ upc = "idle"
    /\ nupd < MaxUpdates
    /\ upc' = "processes"
    /\ uargs' = args
    /\ nupd' = nupd + 1
    /\ complete' = complete \cup {Updated(args)}
    /\ UNCHANGED <<USER_EXCLUDED_PROCESSES, USER_EXCLUDED_TITLES,
                   IGNORE_PROTECTED_WINDOWS, excl_call, epc, seen>>

\* if processes is not None: USER_EXCLUDED_PROCESSES = {...}
UpdateProcesses ==
    /\ upc = "processes"
    /\ USER_EXCLUDED_PROCESSES' = Updated(uargs).processes
    /\ upc' = "titles"
    /\ UNCHANGED <<USER_EXCLUDED_TITLES, IGNORE_PROTECTED_WINDOWS, excl_call,
                   uargs, epc, seen, complete, nupd>>

\* if titles is not None: USER_EXCLUDED_TITLES = {...}
UpdateTitles ==
    /\ upc = "titles"
    /\ USER_EXCLUDED_TITLES' = Updated(uargs).titles
    /\ upc' = "flag"
    /\ UNCHANGED <<USER_EXCLUDED_PROCESSES, IGNORE_PROTECTED_WINDOWS, excl_call,
                   uargs, epc, seen, complete, nupd>>

\* if ignore_protected is not None: IGNORE_PROTECTED_WINDOWS = bool(...);
\* the settings file written next holds what get_exclusion_settings returns
UpdateFlag ==
    /\ upc = "flag"
    /\ IGNORE_PROTECTED_WINDOWS' = Updated(uargs).ignore_protected
    /\ upc' = "idle"
    /\ uargs' = NoArgs
    /\ UNCHANGED <<USER_EXCLUDED_PROCESSES, USER_EXCLUDED_TITLES, excl_call,
                   epc, seen, complete, nupd>>

\* one call of _is_excluded with the settings as they are
ExclCall(title, hwnd, process_name) ==
    /\ upc = "idle"
    /\ excl_call' =
           [title |-> title, hwnd |-> hwnd, process_name |-> process_name,
            result |-> IF is_excluded(title, hwnd, process_name)
                       THEN "excluded" ELSE "allowed",
            settings |-> ExclusionSettings]
    /\ UNCHANGED <<USER_EXCLUDED_PROCESSES, USER_EXCLUDED_TITLES,
                   IGNORE_PROTECTED_WINDOWS, upc, uargs, epc, seen, complete,
                   nupd>>

\* capture_loop reads USER_EXCLUDED_PROCESSES to decide whether to look the
\* process name up, and calls _is_excluded
EvalBegin ==
    /\ epc = "idle"
    /\ seen' = [NoSeen EXCEPT !.filter_processes = USER_EXCLUDED_PROCESSES]
    /\ epc' = "titles"
    /\ UNCHANGED <<USER_EXCLUDED_PROCESSES, USER_EXCLUDED_TITLES,
                   IGNORE_PROTECTED_WINDOWS, excl_call, upc, uargs, complete,
                   nupd>>

\* for user_kw in USER_EXCLUDED_TITLES
EvalTitles ==
    /\ epc = "titles"
    /\ seen' = [seen EXCEPT !.titles = USER_EXCLUDED_TITLES]
    /\ epc' = "flag"
    /\ UNCHANGED <<USER_EXCLUDED_PROCESSES, USER_EXCLUDED_TITLES,
                   IGNORE_PROTECTED_WINDOWS, excl_call, upc, uargs, complete,
                   nupd>>

\* if IGNORE_PROTECTED_WINDOWS and ...
EvalFlag ==
    /\ epc = "flag"
    /\ seen' = [seen EXCEPT !.ignore_protected = IGNORE_PROTECTED_WINDOWS]
    /\ epc' = "processes"
    /\ UNCHANGED <<USER_EXCLUDED_PROCESSES, USER_EXCLUDED_TITLES,
                   IGNORE_PROTECTED_WINDOWS, excl_call, upc, uargs, complete,
                   nupd>>

\* if USER_EXCLUDED_PROCESSES: ... pn in USER_EXCLUDED_PROCESSES
EvalProcesses ==
    /\ epc = "processes"
    /\ seen' = [seen EXCEPT !.processes = USER_EXCLUDED_PROCESSES]
    /\ epc' = "done"
    /\ UNCHANGED <<USER_EXCLUDED_PROCESSES, USER_EXCLUDED_TITLES,
                   IGNORE_PROTECTED_WINDOWS, excl_call, upc, uargs, complete,
                   nupd>>

\* _is_excluded returns and the tick ends
EvalEnd ==
    /\ epc = "done"
    /\ epc' = "idle"
    /\ UNCHANGED <<USER_EXCLUDED_PROCESSES, USER_EXCLUDED_TITLES,
                   IGNORE_PROTECTED_WINDOWS, excl_call, upc, uargs, seen,
                   complete, nupd>>

chanNoFilters ==
    <<auth_token, last_seq_no, ocr_worker, paused_event, stop_event,
      worker_pause_event, worker_stop_event, hpc, hreq, hresp, hexec, hsnap,
      accepted, nreqs>>

(***************************************************************************)
(* SpecExclude: _is_excluded is called on every title, handle and process  *)
(* name, under the settings update_exclusion_settings leaves.              *)
(***************************************************************************)
\* the settings are set up first, then the function is called, once
XBegin ==
    /\ excl_call = NoCall
    /\ \E args \in UpdateArgs : UpdateBegin(args)
    /\ UNCHANGED <<chanNoFilters, workVars, schedVars, callVars>>

XProcesses == UpdateProcesses /\ UNCHANGED <<chanNoFilters, workVars, schedVars, callVars>>

XTitles == UpdateTitles /\ UNCHANGED <<chanNoFilters, workVars, schedVars, callVars>>

XFlag == UpdateFlag /\ UNCHANGED <<chanNoFilters, workVars, schedVars, callVars>>

XCall ==
    /\ excl_call = NoCall
    /\ \E title \in Titles : \E hwnd \in AllHwnds : \E process_name \in ProcessNames :
           ExclCall(title, hwnd, process_name)
    /\ UNCHANGED <<chanNoFilters, workVars, schedVars, callVars>>

ExcludeNext == XBegin \/ XProcesses \/ XTitles \/ XFlag \/ XCall

ExcludeInit == StartedInit /\ storage_client = FALSE /\ WorkInit /\ SchedInit /\ FilterInit /\ CallInit

SpecExclude == ExcludeInit /\ [][ExcludeNext]_vars

(***************************************************************************)
(* SpecFilters: a command thread runs update_exclusion_settings while the  *)
(* capture thread evaluates the Exclusion Policy.                          *)
(***************************************************************************)
FBegin ==
    /\ \E args \in UpdateArgs : UpdateBegin(args)
    /\ UNCHANGED <<chanNoFilters, workVars, schedVars, callVars>>

FProcesses == UpdateProcesses /\ UNCHANGED <<chanNoFilters, workVars, schedVars, callVars>>

FTitles == UpdateTitles /\ UNCHANGED <<chanNoFilters, workVars, schedVars, callVars>>

FFlag == UpdateFlag /\ UNCHANGED <<chanNoFilters, workVars, schedVars, callVars>>

FEvalBegin == EvalBegin /\ UNCHANGED <<chanNoFilters, workVars, schedVars, callVars>>

FEvalTitles == EvalTitles /\ UNCHANGED <<chanNoFilters, workVars, schedVars, callVars>>

FEvalFlag == EvalFlag /\ UNCHANGED <<chanNoFilters, workVars, schedVars, callVars>>

FEvalProcesses == EvalProcesses /\ UNCHANGED <<chanNoFilters, workVars, schedVars, callVars>>

FEvalEnd == EvalEnd /\ UNCHANGED <<chanNoFilters, workVars, schedVars, callVars>>

FiltersNext ==
    \/ FBegin \/ FProcesses \/ FTitles \/ FFlag
    \/ FEvalBegin \/ FEvalTitles \/ FEvalFlag \/ FEvalProcesses \/ FEvalEnd

FiltersInit == StartedInit /\ storage_client = FALSE /\ WorkInit /\ SchedInit /\ FilterInit /\ CallInit

SpecFilters == FiltersInit /\ [][FiltersNext]_vars

\* the part of callVars that belongs to the pipe server
pipeCalls == <<kpc, kmsg, kreq, kresp, kraised, kwrites, ksent, kopen, nconn>>

(***************************************************************************)
(* _NamedPipeServer._client_handler: one thread per connection reads the   *)
(* request, calls the handler, writes the response and closes the handle.  *)
(***************************************************************************)
\* what a client may send: a JSON object, nothing, text that is no JSON,
\* JSON that is no object
Messages == {"object", "empty", "malformed", "not_object"}

\* req after the read block: {} when ReadFile or json.loads raises or the
\* text is empty, else the parsed value
ParseRequest(msg, read_ok) ==
    IF ~read_ok THEN "empty_object"
    ELSE CASE msg = "object" -> "object"
           [] msg = "not_object" -> "not_object"
           [] OTHER -> "empty_object"

\* what the handler may do with req: return a payload, return nothing, or
\* raise; req.get raises on a value that is no object
HandlerOutcomes(req) ==
    IF req = "not_object" THEN {"raises"}
    ELSE {"returns", "returns_none", "raises"}

\* a handler call without the except clause
CatchNothing(outcome) ==
    CASE outcome = "returns" -> "payload"
      [] outcome = "returns_none" -> "empty_object"
      [] OTHER -> "uncaught"

\* resp = self.handler(req) or {}; except Exception: resp = {'error': str(e)}
Catch(outcome) ==
    CASE outcome = "returns" -> "payload"
      [] outcome = "returns_none" -> "empty_object"
      [] OTHER -> "error"

\* _serve_loop connects a client and starts _client_handler on the handle
ClientAccept(t, msg) ==
    /\ kpc[t] \in {"idle", "done"}
    /\ nconn < MaxConns
    /\ nconn' = nconn + 1
    /\ kpc' = [kpc EXCEPT ![t] = "read"]
    /\ kmsg' = [kmsg EXCEPT ![t] = msg]
    /\ kreq' = [kreq EXCEPT ![t] = "none"]
    /\ kresp' = [kresp EXCEPT ![t] = "none"]
    /\ kraised' = [kraised EXCEPT ![t] = FALSE]
    /\ kwrites' = [kwrites EXCEPT ![t] = 0]
    /\ ksent' = [ksent EXCEPT ![t] = 0]
    /\ kopen' = [kopen EXCEPT ![t] = TRUE]

\* the read block
ClientRead(t, read_ok) ==
    /\ kpc[t] = "read"
    /\ kreq' = [kreq EXCEPT ![t] = ParseRequest(kmsg[t], read_ok)]
    /\ kpc' = [kpc EXCEPT ![t] = "handler"]
    /\ UNCHANGED <<kmsg, kresp, kraised, kwrites, ksent, kopen, nconn>>

\* the handler block; an exception that escapes it goes to the finally block
ClientHandle(t, outcome) ==
    /\ kpc[t] = "handler"
    /\ kraised' = [kraised EXCEPT ![t] = (outcome = "raises")]
    /\ kresp' = [kresp EXCEPT ![t] = Catch(outcome)]
    /\ kpc' = [kpc EXCEPT ![t] = IF Catch(outcome) = "uncaught" THEN "close"
                                  ELSE "write"]
    /\ UNCHANGED <<kmsg, kreq, kwrites, ksent, kopen, nconn>>

\* json.dumps and WriteFile; a failing WriteFile is passed over
ClientWrite(t, write_ok) ==
    /\ kpc[t] = "write"
    /\ kwrites' = [kwrites EXCEPT ![t] = @ + 1]
    /\ ksent' = [ksent EXCEPT ![t] = IF write_ok THEN @ + 1 ELSE @]
    /\ kpc' = [kpc EXCEPT ![t] = "close"]
    /\ UNCHANGED <<kmsg, kreq, kresp, kraised, kopen, nconn>>

\* finally: CloseHandle
ClientClose(t) ==
    /\ kpc[t] = "close"
    /\ kopen' = [kopen EXCEPT ![t] = FALSE]
    /\ kpc' = [kpc EXCEPT ![t] = "done"]
    /\ UNCHANGED <<kmsg, kreq, kresp, kraised, kwrites, ksent, nconn>>

(***************************************************************************)
(* SpecClient: connections are served side by side.                        *)
(***************************************************************************)
KAccept ==
    /\ \E t \in Threads, msg \in Messages : ClientAccept(t, msg)
    /\ UNCHANGED <<chanVars, workVars, schedVars, filterVars, red_call, fn_call, pendVars, recVars>>

KRead ==
    /\ \E t \in Threads, read_ok \in BOOLEAN : ClientRead(t, read_ok)
    /\ UNCHANGED <<chanVars, workVars, schedVars, filterVars, red_call, fn_call, pendVars, recVars>>

KHandle ==
    /\ \E t \in Threads : \E outcome \in HandlerOutcomes(kreq[t]) :
           ClientHandle(t, outcome)
    /\ UNCHANGED <<chanVars, workVars, schedVars, filterVars, red_call, fn_call, pendVars, recVars>>

KWrite ==
    /\ \E t \in Threads, write_ok \in BOOLEAN : ClientWrite(t, write_ok)
    /\ UNCHANGED <<chanVars, workVars, schedVars, filterVars, red_call, fn_call, pendVars, recVars>>

KClose ==
    /\ \E t \in Threads : ClientClose(t)
    /\ UNCHANGED <<chanVars, workVars, schedVars, filterVars, red_call, fn_call, pendVars, recVars>>

ClientNext == KAccept \/ KRead \/ KHandle \/ KWrite \/ KClose

ClientInit ==
    StartedInit /\ storage_client = FALSE /\ WorkInit /\ SchedInit /\ FilterInit /\ CallInit

SpecClient == ClientInit /\ [][ClientNext]_vars

(***************************************************************************)
(* SpecRedundant: _is_redundant is called on every hash and history.       *)
(***************************************************************************)
\* the perceptual hashes a call may pass, as sets of 1 bits
HashInputs == {{}, 1..9, 1..10, 1..11, {12}}

\* the histories capture_loop keeps: at most HISTORY_SIZE hashes
Histories ==
    UNION {[1..n -> HashInputs] : n \in 0..HISTORY_SIZE}

\* one call of _is_redundant with the default threshold
RedundantCall(current_hash, history) ==
    red_call' =
        [current_hash |-> current_hash, history |-> history,
         result |-> IF IsRedundant(current_hash, history)
                    THEN "redundant" ELSE "new"]

RCall ==
    /\ \E current_hash \in HashInputs : \E history \in Histories :
           RedundantCall(current_hash, history)
    /\ UNCHANGED <<chanVars, workVars, schedVars, filterVars, pipeCalls, fn_call, pendVars, recVars>>

RedundantNext == RCall

RedundantInit ==
    StartedInit /\ storage_client = FALSE /\ WorkInit /\ SchedInit /\ FilterInit /\ CallInit

SpecRedundant == RedundantInit /\ [][RedundantNext]_vars

(***************************************************************************)
(* OCRDataHandler.search_text: the text search of the local database.      *)
(* A text is its sequence of words; a term occurs in a text once for each  *)
(* word equal to it.                                                       *)
(***************************************************************************)
\* rows of ocr_results joined with their screenshot
StoredRows ==
    { [id |-> 1, text |-> <<"hello", "hello", "world">>, created_at |-> 1,
       process_name |-> "editor"],
      [id |-> 2, text |-> <<"hello">>, created_at |-> 2,
       process_name |-> "editor"],
      [id |-> 3, text |-> <<"Hello", "world">>, created_at |-> 2,
       process_name |-> "chrome"],
      [id |-> 4, text |-> <<"a", "a", "bbb">>, created_at |-> 1,
       process_name |-> "editor"],
      [id |-> 5, text |-> <<"a", "bbb", "bbb">>, created_at |-> 2,
       process_name |-> "editor"],
      [id |-> 6, text |-> <<"hello", "world">>, created_at |-> 2,
       process_name |-> "editor"] }

\* query.split(): the terms of the queries asked
Queries ==
    {<<>>, <<"hello", "world">>, <<"Hello">>, <<"a", "bbb">>, <<"bbb">>}

\* the values a call passes for process_names
ProcessFilters == {{}, {"editor"}}

\* the values a call passes for start_time and end_time: None is <<>>
TimeBounds == {<<>>, <<1>>, <<2>>}

\* limit and offset as the callers pass them
Limits == {-1, 0, 1, 2, 6}

Offsets == {-1, 0, 1}

\* the number of times the lower-cased text holds the term
Occurrences(term, text) ==
    Cardinality({i \in 1..Len(text) : Lower(text[i]) = term})

\* lower(r.text) LIKE '%term%'
Like(term, text) == Occurrences(term, text) > 0

\* length(lower(r.text)) - length(replace(lower(r.text), term, ''))
RemovedLength(term, text) == Occurrences(term, text) * Len(term)

\* one CASE expression of relevance_expr; / is SQLite's integer division
TermRelevance(term, text) ==
    IF Len(term) > 0 THEN RemovedLength(term, text) \div Len(term) ELSE 0

\* relevance_expr: the CASE expressions of all terms added up
RECURSIVE Relevance(_, _)
Relevance(terms, text) ==
    IF terms = <<>> THEN 0
    ELSE TermRelevance(Lower(Head(terms)), text) + Relevance(Tail(terms), text)

\* WHERE: every clause holds for the row
Where(row, terms, process_names, start_time, end_time) ==
    /\ \A i \in 1..Len(terms) : Like(Lower(terms[i]), row.text)
    /\ process_names # {} => row.process_name \in process_names
    /\ start_time # <<>> => row.created_at >= start_time[1]
    /\ end_time # <<>> => row.created_at <= end_time[1]

\* ORDER BY relevance DESC, s.created_at DESC, r.id DESC
OrderBefore(a, b, terms) ==
    \/ Relevance(terms, a.text) > Relevance(terms, b.text)
    \/ /\ Relevance(terms, a.text) = Relevance(terms, b.text)
       /\ \/ a.created_at > b.created_at
          \/ a.created_at = b.created_at /\ a.id > b.id

RECURSIVE OrderBy(_, _)
OrderBy(rows, terms) ==
    IF rows = {} THEN <<>>
    ELSE LET first == CHOOSE r \in rows :
                          \A o \in rows \ {r} : OrderBefore(r, o, terms)
         IN  <<first>> \o OrderBy(rows \ {first}, terms)

\* LIMIT max(int(limit), 0) OFFSET max(int(offset), 0)
LimitOffset(ordered, limit, offset) ==
    LET lim == IF limit > 0 THEN limit ELSE 0
        off == IF offset > 0 THEN offset ELSE 0
        last == IF off + lim < Len(ordered) THEN off + lim ELSE Len(ordered)
    IN  SubSeq(ordered, off + 1, last)

\* search_text(query, limit, offset, fuzzy=True, process_names, start, end)
search_text(rows, terms, limit, offset, process_names, start_time, end_time) ==
    LimitOffset(
        OrderBy({r \in rows : Where(r, terms, process_names, start_time, end_time)},
                terms),
        limit, offset)

SearchText(rows, terms, limit, offset, process_names, start_time, end_time) ==
    fn_call' =
        [fn |-> "search_text", rows |-> rows, terms |-> terms,
         limit |-> limit, offset |-> offset, process_names |-> process_names,
         start_time |-> start_time, end_time |-> end_time,
         result |-> search_text(rows, terms, limit, offset, process_names,
                                start_time, end_time)]

TSearch ==
    /\ fn_call = NoFnCall
    /\ \E rows \in SUBSET StoredRows : \E terms \in Queries :
       \E limit \in Limits : \E offset \in Offsets :
       \E process_names \in ProcessFilters :
       \E start_time \in TimeBounds : \E end_time \in TimeBounds :
           SearchText(rows, terms, limit, offset, process_names,
                      start_time, end_time)
    /\ UNCHANGED <<chanVars, workVars, schedVars, filterVars, red_call, pipeCalls, pendVars, recVars>>

SearchNext == TSearch

SearchInit ==
    StartedInit /\ storage_client = FALSE /\ WorkInit /\ SchedInit /\ FilterInit /\ CallInit

SpecSearch == SearchInit /\ [][SearchNext]_vars

(***************************************************************************)
(* ScreenshotOCRWorker.search_by_natural_language: nearest neighbours of   *)
(* the query in the index, filtered afterwards, then offset and limit.     *)
(***************************************************************************)
\* entries of the index: created_at is <<>> when the metadata holds no
\* timestamp that _parse_timestamp can read
IndexItems ==
    { [id |-> 1, process_name |-> "editor", created_at |-> <<1>>],
      [id |-> 2, process_name |-> "chrome", created_at |-> <<2>>],
      [id |-> 3, process_name |-> "editor", created_at |-> <<>>],
      [id |-> 4, process_name |-> "editor", created_at |-> <<3>>] }

\* a collection larger than any fetch_count the calls below ask for
LongRanking ==
    [i \in 1..24 |->
        [id |-> i, process_name |-> IF i > 21 THEN "editor" ELSE "chrome",
         created_at |-> <<2>>]]

\* the neighbours of a query, nearest first
Rankings ==
    {LongRanking} \cup
    UNION {{s \in [1..n -> IndexItems] : \A i, j \in 1..n : i # j => s[i] # s[j]}
           : n \in 0..3}

\* n_results and offset as the command passes them
ResultCounts == {0, 1, 2}

\* target_count and fetch_count
FetchCount(n_results, offset) ==
    LET target_count == IF n_results + offset > n_results
                        THEN n_results + offset ELSE n_results
    IN  IF target_count * 2 > target_count + 20
        THEN target_count * 2 ELSE target_count + 20

\* vector_store.search_by_text: the n nearest neighbours
search_by_text(neighbours, n) ==
    SubSeq(neighbours, 1, IF n < Len(neighbours) THEN n ELSE Len(neighbours))

\* the body of the filter loop: TRUE when the item is appended to filtered
Keep(item, process_names, start_time, end_time) ==
    /\ ~(process_names # {} /\ item.process_name \notin process_names)
    /\ ~(start_time # <<>> /\ item.created_at # <<>>
         /\ item.created_at[1] < start_time[1])
    /\ ~(end_time # <<>> /\ item.created_at # <<>>
         /\ item.created_at[1] > end_time[1])

\* seq[a:b] of Python
PySlice(seq, a, b) ==
    LET n == Len(seq)
        norm(i) == IF i < 0 THEN (IF n + i < 0 THEN 0 ELSE n + i)
                   ELSE (IF i > n THEN n ELSE i)
    IN  IF norm(a) < norm(b) THEN SubSeq(seq, norm(a) + 1, norm(b)) ELSE <<>>

SearchByNaturalLanguage(neighbours, n_results, offset, process_names, start_time, end_time) ==
    LET fetch_count == FetchCount(n_results, offset)
        raw_results == search_by_text(neighbours, fetch_count)
        filtered == SelectSeq(raw_results,
                        LAMBDA item : Keep(item, process_names, start_time, end_time))
    IN  fn_call' =
            [fn |-> "search_by_natural_language", n_results |-> n_results,
             offset |-> offset, process_names |-> process_names,
             start_time |-> start_time, end_time |-> end_time,
             fetch_count |-> fetch_count, raw_results |-> raw_results,
             filtered |-> filtered,
             result |-> PySlice(filtered, offset, offset + n_results)]

NSearch ==
    /\ fn_call = NoFnCall
    /\ \E neighbours \in Rankings : \E n_results \in ResultCounts :
       \E offset \in Offsets : \E process_names \in ProcessFilters :
       \E start_time \in TimeBounds : \E end_time \in TimeBounds :
           SearchByNaturalLanguage(neighbours, n_results, offset, process_names,
                                   start_time, end_time)
    /\ UNCHANGED <<chanVars, workVars, schedVars, filterVars, red_call, pipeCalls, pendVars, recVars>>

NlNext == NSearch

NlInit ==
    StartedInit /\ storage_client = FALSE /\ WorkInit /\ SchedInit /\ FilterInit /\ CallInit

SpecNl == NlInit /\ [][NlNext]_vars

(***************************************************************************)
(* delete_screenshot and delete_by_time_range: the database rows are       *)
(* deleted, then _delete_vectors_by_hashes deletes from the index, one     *)
(* hash at a time.                                                         *)
(***************************************************************************)
\* what a request may carry as an image hash: strings, the empty string,
\* and a value that is no string
HashEntries ==
    { [type |-> "str", value |-> "h1"], [type |-> "str", value |-> "h2"],
      [type |-> "str", value |-> ""], [type |-> "int", value |-> "7"] }

\* isinstance(image_hash, str) and image_hash
IsHashString(entry) == entry.type = "str" /\ entry.value # ""

\* vector_store.delete_image on one hash: True, False, or an exception
DeleteOutcomes == {"true", "false", "raises"}

\* the checks of the command branch before anything is deleted
Prechecks == {"ok", "missing_argument", "no_worker"}

\* a loop that an exception of delete_image leaves
ContinuesUnlessRaised(outcome) == outcome # "raises"

\* the loop goes on to the next hash after a failed delete_image
Continues(outcome) == TRUE

\* the for loop of _delete_vectors_by_hashes from position i on; the k-th
\* call of delete_image ends as outcomes[k]
RECURSIVE DeleteLoop(_, _, _, _)
DeleteLoop(image_hashes, outcomes, i, acc) ==
    IF i > Len(image_hashes) THEN acc
    ELSE IF ~IsHashString(image_hashes[i])
         THEN DeleteLoop(image_hashes, outcomes, i + 1, acc)
    ELSE LET tried == [acc EXCEPT !.attempts = Append(@, i)]
             outcome == outcomes[Len(tried.attempts)]
         IN  IF outcome = "true"
             THEN DeleteLoop(image_hashes, outcomes, i + 1,
                             [tried EXCEPT !.deleted = @ + 1])
             ELSE IF Continues(outcome)
             THEN DeleteLoop(image_hashes, outcomes, i + 1, tried)
             ELSE [tried EXCEPT !.raised = TRUE]

\* _delete_vectors_by_hashes
DeleteVectorsByHashes(image_hashes, outcomes, vector_store) ==
    IF image_hashes = <<>>
    THEN [deleted |-> 0, requested |-> 0, skipped |-> TRUE,
          attempts |-> <<>>, raised |-> FALSE]
    ELSE IF ~vector_store
    THEN [deleted |-> 0, requested |-> Len(image_hashes), skipped |-> TRUE,
          attempts |-> <<>>, raised |-> FALSE]
    ELSE DeleteLoop(image_hashes, outcomes, 1,
                    [deleted |-> 0, requested |-> Len(image_hashes),
                     skipped |-> FALSE, attempts |-> <<>>, raised |-> FALSE])

\* the hashes the branch hands over: delete_screenshot takes image_hash if
\* it is a non-empty string, delete_by_time_range takes the list as sent
HandedOver(cmd, image_hashes) ==
    IF cmd = "delete_screenshot"
    THEN SelectSeq(image_hashes, IsHashString)
    ELSE image_hashes

\* the delete_screenshot and delete_by_time_range branches of _handle_command
DeleteCommand(cmd, image_hashes, outcomes, precheck, db, vector_store) ==
    LET handed == HandedOver(cmd, image_hashes)
        vector_info == DeleteVectorsByHashes(handed, outcomes, vector_store)
        reached == precheck = "ok" /\ db = "ok"
    IN  fn_call' =
            [fn |-> cmd, image_hashes |-> handed, outcomes |-> outcomes,
             precheck |-> precheck, db |-> db, vector_store |-> vector_store,
             attempts |-> IF reached THEN vector_info.attempts ELSE <<>>,
             response |->
                 IF precheck # "ok"
                 THEN [status |-> "error", error |-> precheck, vector_deleted |-> 0]
                 ELSE IF db = "raises" \/ vector_info.raised
                 THEN [status |-> "error", error |-> "exception", vector_deleted |-> 0]
                 ELSE [status |-> "success", error |-> "",
                       vector_deleted |-> vector_info.deleted]]

\* the image_hashes a request carries: one image_hash at most for
\* delete_screenshot, a list for delete_by_time_range
HashLists(cmd) ==
    UNION {[1..n -> HashEntries] :
           n \in 0..(IF cmd = "delete_screenshot" THEN 1 ELSE MaxHashes)}

DDelete ==
    /\ fn_call = NoFnCall
    /\ \E cmd \in {"delete_screenshot", "delete_by_time_range"} :
       \E image_hashes \in HashLists(cmd) :
       \E outcomes \in [1..MaxHashes -> DeleteOutcomes] :
       \E precheck \in Prechecks : \E db \in {"ok", "raises"} :
       \E vector_store \in BOOLEAN :
           DeleteCommand(cmd, image_hashes, outcomes, precheck, db, vector_store)
    /\ UNCHANGED <<chanVars, workVars, schedVars, filterVars, red_call, pipeCalls, pendVars, recVars>>

DeleteNext == DDelete

DeleteInit ==
    StartedInit /\ storage_client = FALSE /\ WorkInit /\ SchedInit /\ FilterInit /\ CallInit

SpecDelete == DeleteInit /\ [][DeleteNext]_vars

(***************************************************************************)
(* SpecPending: the scheduler calls pending_count(), which reads the queue *)
(* size and then the in-flight count, while the worker takes tasks.        *)
(***************************************************************************)
\* the call variables pending_count leaves alone
notPending == <<red_call, fn_call, pipeCalls>>

\* while a call of pending_count is between its two reads, the number of
\* tasks enqueued and not finished after each step is noted
Observe ==
    pspan' = IF ppc = "qsize" THEN pspan \cup {nenq' - nfin'} ELSE pspan

\* qsize = self._task_queue.qsize()
PendingQsize ==
    /\ ppc # "qsize"
    /\ ppc' = "qsize"
    /\ pqsize' = Len(task_queue)
    /\ pspan' = {nenq - nfin}
    /\ UNCHANGED pvalue

\* in_flight = int(self._in_flight) under the lock; return qsize + in_flight
PendingInFlight ==
    /\ ppc = "qsize"
    /\ ppc' = "done"
    /\ pvalue' = pqsize + in_flight
    /\ UNCHANGED <<pqsize, pspan>>

PQsize ==
    /\ PendingQsize
    /\ UNCHANGED <<chanVars, workVars, schedVars, filterVars, notPending, recVars>>

PInFlight ==
    /\ PendingInFlight
    /\ UNCHANGED <<chanVars, workVars, schedVars, filterVars, notPending, recVars>>

\* the scheduler hands a frame over after its call of pending_count returned
PEnqueue ==
    /\ ppc # "qsize"
    /\ \E h \in Hashes : QueueImageFromMemory(h)
    /\ ppc' = "idle"
    /\ UNCHANGED <<pqsize, pvalue, pspan>>
    /\ UNCHANGED <<chanVars, schedVars, filterVars, notPending, recVars>>

PLoop ==
    /\ WorkerLoop /\ Observe
    /\ UNCHANGED <<ppc, pqsize, pvalue, chanVars, schedVars, filterVars, notPending, recVars>>

PDrain ==
    /\ WorkerDrain /\ Observe
    /\ UNCHANGED <<ppc, pqsize, pvalue, chanVars, schedVars, filterVars, notPending, recVars>>

PMark ==
    /\ WorkerMark /\ Observe
    /\ UNCHANGED <<ppc, pqsize, pvalue, chanVars, schedVars, filterVars, notPending, recVars>>

PProcess ==
    /\ WorkerProcess /\ Observe
    /\ UNCHANGED <<ppc, pqsize, pvalue, chanVars, schedVars, filterVars, notPending, recVars>>

PCleanup ==
    /\ WorkerCleanup /\ Observe
    /\ UNCHANGED <<ppc, pqsize, pvalue, chanVars, schedVars, filterVars, notPending, recVars>>

PendingNext ==
    \/ PQsize
    \/ PInFlight
    \/ PEnqueue
    \/ PLoop
    \/ PDrain
    \/ PMark
    \/ PProcess
    \/ PCleanup

PendingInit ==
    StartedInit /\ storage_client = FALSE /\ WorkInit /\ SchedInit /\ FilterInit /\ CallInit

SpecPending == PendingInit /\ [][PendingNext]_vars

(***************************************************************************)
(* SpecPause: the iteration of capture_loop in its steps (the test of the  *)
(* while loop, the pause check, the rest), beside the handler threads of   *)
(* pause, resume and stop commands.  The worker thread is left out: the    *)
(* frames stay in the queue.                                               *)
(***************************************************************************)
workRest ==
    <<storage_client, in_flight, stats, wpc, cur, run, pending, screenshots,
      collection, nfin>>

\* while not stop_event.is_set(): the loop ends when stop is set
LoopHead ==
    /\ tick.kind \notin {"head", "checked", "crashed", "stopped"}
    /\ now <= MaxNow
    /\ tick' = [NoTick EXCEPT !.kind = IF stop_event THEN "stopped" ELSE "head"]
    /\ UNCHANGED <<last_hwnd, last_capture_time, history_hashes, now, workVars>>

\* if paused_event.is_set(): sleep and continue; otherwise the iteration
\* goes on
PauseCheck(dt) ==
    /\ tick.kind = "head"
    /\ IF paused_event
       THEN TickPaused /\ now' = now + dt
       ELSE /\ tick' = [NoTick EXCEPT !.kind = "checked"]
            /\ UNCHANGED <<last_hwnd, last_capture_time, history_hashes, now,
                           task_queue, nenq>>
    /\ UNCHANGED workRest

\* the iteration from now = time.time() to the sleep at its end
CaptureStep(hwnd, dt, chwnd, frame, raised) ==
    /\ tick.kind = "checked"
    /\ now' = now + dt
    /\ TickBody(hwnd, chwnd, frame, raised)
    /\ UNCHANGED workRest

\* the captures of these runs: the focus stays where it is during a capture
\* and shows one of two pictures that differ enough to be both handed over
PauseCaptures(hwnd) ==
    { c \in BodyCaptures(hwnd) : c.hwnd = hwnd /\ c.frame.image_hash # "h2" }

\* the windows of these runs
PauseHwnds == { h \in Hwnds : h <= 2 }

\* an iteration of these runs takes a quarter of the clock's range
PauseSteps == { MaxNow \div 4 }

\* pause, resume and stop requests with the token and without _seq_no
PauseRequests ==
    { r \in Requests : r.token = Token /\ ~r.has_seq
                       /\ r.command \in {"pause", "resume", "stop"} }

\* a handler thread holds a resume request
ResumeInHand == \E t \in Threads : hpc[t] # "idle" /\ hreq[t].command = "resume"

\* the record kept from the acknowledgement of a pause, given while no resume
\* is in hand, to the arrival of the next resume: the frames handed to the
\* queue since, and whether an iteration has passed its pause check since
Acknowledged == [fn |-> "pause", handed |-> 0, late |-> FALSE]

UHead == LoopHead /\ UNCHANGED <<chanVars, filterVars, callVars>>

UCheck ==
    /\ \E dt \in PauseSteps : PauseCheck(dt)
    /\ fn_call' = IF fn_call.fn = "pause" /\ tick'.kind = "checked"
                  THEN [fn_call EXCEPT !.late = TRUE] ELSE fn_call
    /\ UNCHANGED <<chanVars, filterVars, red_call, pipeCalls, pendVars, recVars>>

UCapture ==
    /\ \E hwnd \in PauseHwnds, dt \in PauseSteps :
          \E c \in PauseCaptures(hwnd) : CaptureStep(hwnd, dt, c.hwnd, c.frame, c.raised)
    /\ fn_call' = IF fn_call.fn = "pause" /\ tick'.enqueued
                  THEN [fn_call EXCEPT !.handed = @ + 1] ELSE fn_call
    /\ UNCHANGED <<chanVars, filterVars, red_call, pipeCalls, pendVars, recVars>>

UConnect ==
    /\ \E t \in Threads, req \in PauseRequests :
          /\ Connect(t, req)
          /\ fn_call' = IF req.command = "resume" THEN NoFnCall ELSE fn_call
    /\ UNCHANGED <<workVars, schedVars, filterVars, red_call, pipeCalls, pendVars, recVars>>

UStep ==
    /\ \E t \in Threads :
          /\ HandlerStep(t)
          /\ fn_call' = IF /\ hpc[t] = "reply" /\ hreq[t].command = "pause"
                           /\ fn_call = NoFnCall /\ ~ResumeInHand
                        THEN Acknowledged ELSE fn_call
    /\ UNCHANGED <<workVars, schedVars, filterVars, red_call, pipeCalls, pendVars, recVars>>

PauseNext == UHead \/ UCheck \/ UCapture \/ UConnect \/ UStep

PauseInit ==
    StartedInit /\ storage_client = FALSE /\ WorkInit /\ SchedInit /\ FilterInit /\ CallInit

SpecPause == PauseInit /\ [][PauseNext]_vars

(***************************************************************************)
(* SpecRecognize: OCREngine is a singleton, and recognize runs predict     *)
(* under the engine's inference lock; the worker and the handler threads   *)
(* call it.                                                                *)
(***************************************************************************)
\* the threads that call recognize: 0 is the worker, the others are handlers
Callers == {0} \cup Threads

\* a with statement that never waits
AcquirableAlways(locked) == TRUE

\* with self._inference_lock: entered when no thread holds the lock
Acquirable(locked) == ~locked

\* recognize is called: the image is converted, the thread reaches the with
RecognizeEnter(c) ==
    /\ rpc[c] = "idle"
    /\ nrec < MaxCalls
    /\ nrec' = nrec + 1
    /\ rpc' = [rpc EXCEPT ![c] = "lock"]
    /\ rout' = [rout EXCEPT ![c] = "none"]
    /\ UNCHANGED inference_lock

\* the thread enters the with block
RecognizeAcquire(c) ==
    /\ rpc[c] = "lock"
    /\ Acquirable(inference_lock)
    /\ inference_lock' = TRUE
    /\ rpc' = [rpc EXCEPT ![c] = "predict"]
    /\ UNCHANGED <<rout, nrec>>

\* self.ocr.predict(image_np) returns or raises; a raise is caught inside
\* the with block and recognize returns []
RecognizePredict(c, outcome) ==
    /\ rpc[c] = "predict"
    /\ rout' = [rout EXCEPT ![c] = outcome]
    /\ rpc' = [rpc EXCEPT ![c] = "exit"]
    /\ UNCHANGED <<inference_lock, nrec>>

\* the with block is left, by its end or by the return in the except clause
RecognizeRelease(c) ==
    /\ rpc[c] = "exit"
    /\ inference_lock' = FALSE
    /\ rpc' = [rpc EXCEPT ![c] = "idle"]
    /\ UNCHANGED <<rout, nrec>>

GEnter ==
    /\ \E c \in Callers : RecognizeEnter(c)
    /\ UNCHANGED <<chanVars, workVars, schedVars, filterVars, notPending, pendVars>>

GAcquire ==
    /\ \E c \in Callers : RecognizeAcquire(c)
    /\ UNCHANGED <<chanVars, workVars, schedVars, filterVars, notPending, pendVars>>

GPredict ==
    /\ \E c \in Callers : \E outcome \in {"result", "raises"} :
           RecognizePredict(c, outcome)
    /\ UNCHANGED <<chanVars, workVars, schedVars, filterVars, notPending, pendVars>>

GRelease ==
    /\ \E c \in Callers : RecognizeRelease(c)
    /\ UNCHANGED <<chanVars, workVars, schedVars, filterVars, notPending, pendVars>>

RecognizeNext ==
    \/ GEnter
    \/ GAcquire
    \/ GPredict
    \/ GRelease

RecognizeInit ==
    StartedInit /\ storage_client = FALSE /\ WorkInit /\ SchedInit /\ FilterInit /\ CallInit

SpecRecognize == RecognizeInit /\ [][RecognizeNext]_vars

(***************************************************************************)
(* SpecLive: the worker of SpecWorker under fair scheduling: its thread is *)
(* not starved, so each step of _worker_loop that can be taken is taken.   *)
(***************************************************************************)
LiveNext ==
    \/ WEnqueue
    \/ WLoop
    \/ WDrain
    \/ WMark
    \/ WProcess
    \/ WCleanup
    \/ WPause
    \/ WResume
    \/ WStop

LiveInit ==
    StartedInit /\ storage_client \in BOOLEAN /\ WorkInit /\ SchedInit /\ FilterInit /\ CallInit

\* the worker thread keeps running: time.sleep and Event.wait return
Fairness ==
    /\ WF_vars(WLoop)
    /\ WF_vars(WDrain)
    /\ WF_vars(WMark)
    /\ WF_vars(WProcess)
    /\ WF_vars(WCleanup)

SpecLive == LiveInit /\ [][LiveNext]_vars /\ Fairness

(***************************************************************************)
(* Claims about the Command Channel.                                       *)
(***************************************************************************)
RECURSIVE MaxOf(_)
\* the largest element of a sequence of sequence numbers, -1 when empty
MaxOf(q) ==
    IF q = <<>> THEN -1
    ELSE LET m == MaxOf(Tail(q)) IN IF Head(q) > m THEN Head(q) ELSE m

StrictlyIncreasing(q) ==
    \A i \in 1..Len(q) : \A j \in 1..Len(q) : i < j => q[i] < q[j]

\* a handler that has passed both checks and has not yet returned
Dispatching(t) == hpc[t] \in {"dispatch", "stop_clear", "worker"}

\* C1: with the requests handled one after another, a request with a valid
\* token and a _seq_no above the last accepted one is accepted, and
\* _last_seq_no holds that number before the command branch runs; a request
\* whose _seq_no is at most the largest accepted one gets an authentication
\* failure, runs no command branch and leaves all shared state, the stored
\* maximum included, as it was.
C1_ReplayProtection ==
    /\ last_seq_no = MaxOf(accepted)
    /\ \A t \in Threads :
        LET r == hreq[t]
            before == hsnap[t]
        IN  /\ (Dispatching(t) /\ r.has_seq) =>
                   (last_seq_no = r.seq /\ r.seq > before.last_seq_no)
            /\ (hpc[t] = "reply" /\ r.token = auth_token /\ r.has_seq
                    /\ r.seq > before.last_seq_no) =>
                   /\ ~IsAuthFailure(hresp[t])
                   /\ hexec[t] = r.command
                   /\ last_seq_no = r.seq
            /\ (hpc[t] = "reply" /\ r.token = auth_token /\ r.has_seq
                    /\ r.seq <= before.last_seq_no) =>
                   /\ IsAuthFailure(hresp[t])
                   /\ hexec[t] = "none"
                   /\ Shared = before

\* C1 witness: a replayed number is rejected after an earlier acceptance
C1_Witness ==
    /\ hpc[1] = "reply"
    /\ hreq[1].token = auth_token
    /\ hreq[1].has_seq
    /\ accepted # <<>>
    /\ hreq[1].seq = MaxOf(accepted)
    /\ hreq[1].command = "pause"
    /\ ~paused_event
    /\ IsAuthFailure(hresp[1])

\* C2: with concurrent handler threads the accepted sequence numbers are
\* strictly increasing in the order they are stored: no number is accepted
\* twice and _last_seq_no never goes back.
C2_AtomicReplayCheck ==
    /\ StrictlyIncreasing(accepted)
    /\ last_seq_no = MaxOf(accepted)

\* C3: a request whose token is absent or differs from the configured one
\* gets an authentication failure, runs no command branch, and leaves the
\* scheduler flags, the worker flags, the exclusion settings and
\* _last_seq_no as they were, whatever _seq_no it carries.
C3_BadTokenRejected ==
    \A t \in Threads :
        (hpc[t] \in {"seq", "write", "reply"} \cup {"dispatch", "stop_clear", "worker"}
            /\ auth_token # "" /\ hreq[t].token # auth_token) =>
                /\ hpc[t] = "reply"
                /\ hresp[t] = InvalidToken
                /\ hexec[t] = "none"
                /\ Shared = hsnap[t]

\* C3 witness: a pause without a token, carrying a fresh _seq_no, is rejected
\* while the monitor is running
C3_Witness ==
    /\ hpc[1] = "reply"
    /\ hreq[1].token = "absent"
    /\ hreq[1].command = "pause"
    /\ hreq[1].has_seq
    /\ hreq[1].seq > last_seq_no
    /\ ocr_worker
    /\ ~paused_event
    /\ hresp[1] = InvalidToken

(***************************************************************************)
(* Claims about the worker and the persistence handshake.                  *)
(***************************************************************************)
\* the run the worker has just finished: it staged an id, called commit and
\* did not succeed, so the commit returned a non-success status or raised
CommitFailed ==
    /\ wpc = "cleanup"
    /\ run.staged # 0
    /\ Count(run.calls, "commit") = 1
    /\ run.result # "success"

\* the run the worker has just finished: it staged an id and failed without
\* reaching commit, so the recognizer or the confidence filter raised
RecognizeFailed ==
    /\ wpc = "cleanup"
    /\ run.staged # 0
    /\ Count(run.calls, "commit") = 0
    /\ run.result # "success"

\* C4: when the stage succeeded and the commit then fails, by a non-success
\* status or by raising, abort is invoked for the staged id exactly once:
\* the id is not left without an abort and is not aborted twice.
C4_AbortExactlyOnce == CommitFailed => Count(run.calls, "abort") = 1

\* C5: when the stage succeeded and the recognizer or the confidence filter
\* raises, abort is invoked for the staged id before the failure is
\* recorded.
C5_AbortAfterRecognizerError == RecognizeFailed => Count(run.calls, "abort") >= 1

\* C6: pending_count() is the queue length plus the in-flight count and is
\* never negative; the in-flight count is 1 exactly from the marking of a
\* task to its cleanup block, whatever the end of the task; with every
\* queued task cleaned up and the queue empty, pending_count() is 0.
C6_PendingCount ==
    /\ PendingCount >= 0
    /\ in_flight = IF wpc \in {"process", "cleanup"} THEN 1 ELSE 0
    /\ wpc # "got" => PendingCount = nenq - nfin
    /\ nfin = nenq => task_queue = <<>> /\ PendingCount = 0

C6_Witness ==
    /\ nfin = nenq
    /\ nfin >= 2
    /\ stats.processed_count >= 1
    /\ stats.failed_count >= 1
    /\ PendingCount = 0

ProcessStep == wpc = "process" /\ wpc' = "cleanup"

\* C11: while the worker's pause flag is set no task is dequeued: no step
\* taken with the flag set makes the queue shorter.
C11_NoDequeueWhilePaused ==
    [][worker_pause_event => Len(task_queue') >= Len(task_queue)]_vars

\* C12: the worker thread is the only consumer of the queue: the tasks
\* leave it one at a time in the order they were queued, each once, and the
\* in-flight count is never above 1.
C12_SingleConsumerFifo ==
    LET held == IF cur # NoTask THEN 1 ELSE 0
    IN /\ in_flight <= 1
       /\ cur # NoTask => cur.id = nfin + 1
       /\ \A i \in 1..Len(task_queue) : task_queue[i].id = nfin + held + i
       /\ nfin + held + Len(task_queue) = nenq

C12_Witness ==
    /\ wpc = "process"
    /\ cur.id = 2
    /\ nfin = 1
    /\ Len(task_queue) = 1
    /\ in_flight = 1

\* C13: a task whose processing fails adds exactly one to failed_count and
\* nothing to processed_count; the worker loop goes on to the rest of the
\* queue, which it leaves as it is, and ends only when stop is set.
C13_FailureCountedOnce ==
    [][/\ (ProcessStep /\ run'.result = "failure") =>
             /\ stats'.failed_count = stats.failed_count + 1
             /\ stats'.processed_count = stats.processed_count
       /\ (wpc = "cleanup" /\ wpc' # wpc) =>
             wpc' = "drain" /\ task_queue' = task_queue
       /\ wpc' = "stopped" => worker_stop_event]_vars

C13_Witness ==
    /\ wpc = "cleanup"
    /\ cur.id = 2
    /\ run.result = "success"
    /\ stats.failed_count = 1
    /\ stats.processed_count = 1

\* C14: once the worker's stop flag is set the worker dequeues no further
\* task: no step taken with the flag set makes the queue shorter.
C14_NoDequeueAfterStop ==
    [][worker_stop_event => Len(task_queue') >= Len(task_queue)]_vars

C19_DuplicateIsNotFailure ==
    [][(ProcessStep /\ run'.save_status = "duplicate") =>
          /\ stats'.failed_count = stats.failed_count
          /\ run'.result = "success"
          /\ Count(run'.calls, "on_error") = 0
          /\ screenshots' = screenshots]_vars

C19_Witness ==
    /\ wpc = "cleanup"
    /\ run.save_status = "duplicate"
    /\ run.result = "success"
    /\ stats.failed_count = 0

Decided == tick.kind = "decided"

\* C7: on a tick that is not paused, on a window that is not excluded and
\* whose handle differs from the last one, the focus-change capture is
\* triggered exactly when pending_count() is at most MAX_PENDING.
C7_FocusChangeBackpressure ==
    (Decided /\ tick.changed) =>
        /\ tick.should_capture <=> tick.pending <= MAX_PENDING
        /\ tick.should_capture => tick.scan_reason = "focus_change"

C7_Witness ==
    /\ Decided
    /\ tick.changed
    /\ tick.pending = MAX_PENDING
    /\ tick.should_capture
    /\ tick.enqueued

\* C8: on a tick that is not paused, on a window that is not excluded, with
\* at least the interval elapsed since the last capture, a capture is
\* triggered, also when the focus change of that tick was suppressed by
\* backpressure.
C8_IntervalAlwaysTriggers == (Decided /\ tick.due) => tick.should_capture

\* C9: a tick whose frame is redundant hands nothing to the queue and leaves
\* the history as it is; a tick that captures the frame the tick before it
\* queued finds it redundant, so the two ticks queue one task.
C9_RedundantFrameDropped ==
    [][(now' # now /\ tick'.frame # NoFrame) =>
          /\ tick'.redundant =>
                /\ ~tick'.enqueued
                /\ UNCHANGED <<task_queue, nenq, history_hashes>>
          /\ (tick.enqueued /\ tick'.frame = tick.frame) => tick'.redundant]_vars

C9_Witness ==
    /\ Decided
    /\ ~tick.changed
    /\ tick.redundant
    /\ tick.frame.dhash = history_hashes[Len(history_hashes)]
    /\ nenq = 1

\* C15: no frame of an excluded window is queued: a tick on an excluded
\* window only remembers the handle, and a queued frame was captured from
\* the window that passed the exclusion check of that tick.
C15_NoFrameFromExcludedWindow ==
    /\ tick.kind = "excluded" =>
          /\ ~tick.enqueued
          /\ tick.frame = NoFrame
          /\ last_hwnd = tick.hwnd
    /\ (Decided /\ tick.enqueued) =>
          /\ tick.captured = tick.hwnd
          /\ ~IsExcluded(tick.captured)

(***************************************************************************)
(* Claims about the Exclusion Policy.                                      *)
(***************************************************************************)
\* rules 1 to 7 of should_exclude; a rule about the window needs a handle,
\* the process name is the one supplied, else the one of the window
SomeRuleMatches(title, hwnd, process_name, settings) ==
    LET pn == Lower(IF process_name # "" THEN process_name
                    ELSE IF hwnd # 0 THEN GetWindowProcessName(hwnd) ELSE "")
    IN \/ title = <<>>
       \/ \E kw \in EXCLUSION_KEYWORDS : Contains(kw, title)
       \/ \E t \in EXCLUSION_TITLES : StartsWith(title, t)
       \/ \E user_kw \in settings.titles : Contains(user_kw, TitleLower(title))
       \/ settings.ignore_protected /\ hwnd # 0 /\ WindowInfo(hwnd).protected
       \/ pn # "" /\ pn \in settings.processes
       \/ /\ \E bk \in browser_keywords : Contains(bk, TitleLower(title))
          /\ hwnd # 0
          /\ \E flag \in privacy_flags : flag \in WindowInfo(hwnd).command_line

\* C16: should_exclude(title, handle, process_name) returns true exactly when
\* at least one of rules 1 to 7 matches, for every combination of arguments,
\* a call with an excluded process name and no window handle included
C16_ExcludedIffSomeRule ==
    excl_call.result # "none" =>
        (excl_call.result = "excluded"
            <=> SomeRuleMatches(excl_call.title, excl_call.hwnd,
                                excl_call.process_name, excl_call.settings))

\* C17: a tick that evaluates the Exclusion Policy while
\* update_exclusion_settings runs has read the processes, the titles and the
\* flag of one and the same settings, the old ones or the new ones
C17_SettingsSeenWhole ==
    epc = "done" =>
        \E c \in complete :
            /\ seen.titles = c.titles
            /\ seen.ignore_protected = c.ignore_protected
            /\ seen.processes = c.processes

(***************************************************************************)
(* Claims about the redundancy test.                                       *)
(***************************************************************************)
\* C21: is_redundant(new_hash, history) is true exactly when some entry of
\* the history differs from new_hash in fewer than 10 bits; with an empty
\* history it is false
C21_RedundantIffCloseEntry ==
    red_call.result # "none" =>
        /\ red_call.result = "redundant" <=>
               \E i \in 1..Len(red_call.history) :
                   Cardinality((red_call.current_hash \ red_call.history[i])
                               \cup (red_call.history[i] \ red_call.current_hash)) < 10
        /\ red_call.history = <<>> => red_call.result = "new"

\* a call found redundant by a later entry, the first one being 10 bits away
C21_Witness ==
    /\ red_call.result = "redundant"
    /\ Len(red_call.history) >= 2
    /\ red_call.current_hash = {}
    /\ red_call.history[1] = 1..10

(***************************************************************************)
(* Claims about the responses of the Command Channel.                      *)
(***************************************************************************)
\* C22: two rejected requests receive identical responses, whichever of the
\* token check and the sequence check failed and whatever the stored last
\* accepted sequence number was
C22_RejectionsIdentical ==
    \A t1 \in Threads : \A t2 \in Threads :
        (IsAuthFailure(hresp[t1]) /\ IsAuthFailure(hresp[t2]))
            => hresp[t1] = hresp[t2]

C24_UnknownCommand ==
    (hpc[1] = "reply" /\ hexec[1] \notin Recognised \cup {"none"}) =>
        /\ hresp[1] = Response("error", "unknown command", 0, 0)
        /\ paused_event = hsnap[1].paused_event
        /\ stop_event = hsnap[1].stop_event
        /\ worker_pause_event = hsnap[1].worker_pause_event
        /\ worker_stop_event = hsnap[1].worker_stop_event
        /\ USER_EXCLUDED_PROCESSES = hsnap[1].processes
        /\ IGNORE_PROTECTED_WINDOWS = hsnap[1].ignore_protected

(***************************************************************************)
(* Claims about failures inside a tick.                                    *)
(***************************************************************************)
\* C25: a tick whose capture, metadata gathering or hand-off raises is
\* skipped: nothing is queued and the capture time and the last window stay
\* as they were; the loop does not end because of it
C25_FailedTickSkipped ==
    [][(now' # now /\ tick'.raised # "none") =>
          /\ tick'.kind = "decided"
          /\ ~tick'.enqueued
          /\ task_queue' = task_queue
          /\ last_capture_time' = last_capture_time
          /\ last_hwnd' = last_hwnd]_vars

\* a frame is queued by a tick that follows one whose hand-off raised: the
\* history holds more hashes than frames were queued
C25_Witness ==
    /\ Decided
    /\ tick.enqueued
    /\ tick.raised = "none"
    /\ Len(history_hashes) > nenq

(***************************************************************************)
(* Claims about the text search.                                           *)
(***************************************************************************)
\* the product of max(1, length(term)) over the terms
RECURSIVE ScoreScale(_)
ScoreScale(terms) ==
    IF terms = <<>> THEN 1
    ELSE (IF Len(Head(terms)) > 1 THEN Len(Head(terms)) ELSE 1)
         * ScoreScale(Tail(terms))

\* the sum over the terms of occurrences / max(1, length(term)), times scale
RECURSIVE ReferenceScore(_, _, _)
ReferenceScore(terms, text, scale) ==
    IF terms = <<>> THEN 0
    ELSE Occurrences(Lower(Head(terms)), text)
           * (scale \div (IF Len(Head(terms)) > 1 THEN Len(Head(terms)) ELSE 1))
         + ReferenceScore(Tail(terms), text, scale)

\* C26: the fuzzy search orders its results by the score that adds up, over
\* the whitespace-separated terms of the query, the occurrences of the term
\* in the text divided by max(1, length(term)), highest first, for terms of
\* different lengths too.
C26_OrderedByReferenceScore ==
    fn_call.fn = "search_text" =>
        \A i \in 1..Len(fn_call.result) : \A j \in 1..Len(fn_call.result) :
            i < j =>
                ReferenceScore(fn_call.terms, fn_call.result[i].text,
                               ScoreScale(fn_call.terms))
                >= ReferenceScore(fn_call.terms, fn_call.result[j].text,
                                  ScoreScale(fn_call.terms))

\* C27: for the query "hello world" the row with text "hello hello world"
\* and the row with text "hello" are both in the result, the former first;
\* rows of equal score come newer capture first, then larger id first; and
\* offset and limit cut the ordered list.
C27_HelloWorldRanking ==
    fn_call.fn = "search_text" =>
        LET res == fn_call.result
            all == search_text(fn_call.rows, fn_call.terms,
                               Cardinality(StoredRows), 0, fn_call.process_names,
                               fn_call.start_time, fn_call.end_time)
        IN  /\ ( /\ fn_call.terms = <<"hello", "world">>
                 /\ {r.id : r \in fn_call.rows} = {1, 2}
                 /\ fn_call.process_names = {}
                 /\ fn_call.start_time = <<>> /\ fn_call.end_time = <<>>
                 /\ fn_call.limit = Cardinality(StoredRows)
                 /\ fn_call.offset = 0 )
               => /\ Len(res) = 2
                  /\ res[1].id = 1
                  /\ res[2].id = 2
            /\ \A i \in 1..Len(res) : \A j \in 1..Len(res) :
                   ( /\ i < j
                     /\ Relevance(fn_call.terms, res[i].text)
                            = Relevance(fn_call.terms, res[j].text) )
                   => \/ res[i].created_at > res[j].created_at
                      \/ /\ res[i].created_at = res[j].created_at
                         /\ res[i].id > res[j].id
            /\ res = LimitOffset(all, fn_call.limit, fn_call.offset)

(***************************************************************************)
(* Claims about the natural-language search.                               *)
(***************************************************************************)
\* C28: search_by_natural_language returns at most n_results items; every
\* returned item is of an allowed process and inside [start_time, end_time]
\* when these are given; the result is the slice [offset, offset + n_results)
\* of the filtered neighbour list in rank order; and the index was asked for
\* max(2 * (n_results + offset), n_results + offset + 20) neighbours.
C28_FilteredSlice ==
    fn_call.fn = "search_by_natural_language" =>
        LET res == fn_call.result
            n == fn_call.n_results
            off == fn_call.offset
        IN  /\ Len(res) <= n
            /\ \A k \in 1..Len(res) :
                   /\ fn_call.process_names # {}
                          => res[k].process_name \in fn_call.process_names
                   /\ fn_call.start_time # <<>>
                          => /\ res[k].created_at # <<>>
                             /\ res[k].created_at[1] >= fn_call.start_time[1]
                   /\ fn_call.end_time # <<>>
                          => /\ res[k].created_at # <<>>
                             /\ res[k].created_at[1] <= fn_call.end_time[1]
            /\ Len(res) = Cardinality({i \in 1..Len(fn_call.filtered) :
                                           i - 1 >= off /\ i - 1 < off + n})
            /\ \A k \in 1..Len(res) :
                   res[k] = fn_call.filtered[(IF off > 0 THEN off ELSE 0) + k]
            /\ fn_call.fetch_count =
                   (IF 2 * (n + off) > n + off + 20
                    THEN 2 * (n + off) ELSE n + off + 20)

(***************************************************************************)
(* Claims about deletion from the index.                                   *)
(***************************************************************************)
\* C29: when delete_screenshot or delete_by_time_range reaches the index,
\* delete_image is attempted for every image hash handed over, whatever the
\* earlier attempts returned or raised; the command succeeds; and
\* vector_deleted is the number of attempts that succeeded.
C29_EveryHashAttempted ==
    ( /\ fn_call.fn \in {"delete_screenshot", "delete_by_time_range"}
      /\ fn_call.precheck = "ok" /\ fn_call.db = "ok" )
    => /\ fn_call.vector_store =>
              /\ {fn_call.attempts[k] : k \in 1..Len(fn_call.attempts)}
                     = {i \in 1..Len(fn_call.image_hashes) :
                            IsHashString(fn_call.image_hashes[i])}
              /\ \A k \in 1..Len(fn_call.attempts) : \A l \in 1..Len(fn_call.attempts) :
                     k < l => fn_call.attempts[k] < fn_call.attempts[l]
       /\ fn_call.response.status = "success"
       /\ fn_call.response.vector_deleted
              = Cardinality({k \in 1..Len(fn_call.attempts) :
                                 fn_call.outcomes[k] = "true"})

\* three hashes: the first delete raises, the second returns False, the third
\* succeeds, and the command reports one deletion
C29_Witness ==
    /\ fn_call.fn = "delete_by_time_range"
    /\ fn_call.precheck = "ok" /\ fn_call.db = "ok" /\ fn_call.vector_store
    /\ Len(fn_call.image_hashes) = 3
    /\ fn_call.attempts = <<1, 2, 3>>
    /\ fn_call.outcomes[1] = "raises"
    /\ fn_call.outcomes[2] = "false"
    /\ fn_call.outcomes[3] = "true"
    /\ fn_call.response.status = "success"
    /\ fn_call.response.vector_deleted = 1

(***************************************************************************)
(* Claims about pending_count read while the worker runs.                  *)
(***************************************************************************)
\* C30: the value a call of pending_count returns is the number of tasks
\* enqueued and not finished at some instant between the start and the end
\* of the call: a task just taken from the queue is never missed, and never
\* counted twice.
C30_PendingCountAtSomeInstant ==
    ppc = "done" => pvalue \in pspan

(***************************************************************************)
(* Claims about what a tick records.                                       *)
(***************************************************************************)
\* C31: a triggered tick whose capture produced an image and that ran to
\* its end sets last_capture_time to the time of the tick and last_hwnd to
\* the captured window, redundant frame or not; and the tick that follows
\* it on that window, less than INTERVAL later, captures nothing.
C31_RecordedWhateverRedundancy ==
    [][ now' # now =>
          /\ ( /\ tick'.kind = "decided" /\ tick'.should_capture
               /\ tick'.frame # NoFrame /\ tick'.raised = "none" )
             => /\ last_capture_time' = now
                /\ last_hwnd' = tick'.captured
          /\ ( /\ tick.kind = "decided" /\ tick.should_capture
               /\ tick.frame # NoFrame /\ tick.raised = "none"
               /\ tick'.kind = "decided"
               /\ tick'.hwnd = tick.captured
               /\ now - last_capture_time < INTERVAL )
             => ~tick'.should_capture /\ tick'.frame = NoFrame /\ ~tick'.enqueued
      ]_vars

\* a redundant frame was captured and the capture was recorded
C31_Witness ==
    /\ tick.kind = "decided" /\ tick.should_capture /\ tick.redundant
    /\ tick.raised = "none"
    /\ last_hwnd = tick.captured
    /\ last_capture_time > 0
    /\ now - last_capture_time < INTERVAL

\* C32: the history never holds more than 3 hashes; a hash accepted when it
\* holds 3 takes the place of the oldest; and the history changes only on a
\* tick that accepted a frame that was not redundant, never on an excluded,
\* untriggered, failed or redundant tick.
C32_HistoryFifoOfThree ==
    [][ /\ Len(history_hashes') <= 3
        /\ history_hashes' # history_hashes =>
              /\ now' # now
              /\ tick'.kind = "decided" /\ tick'.should_capture
              /\ tick'.frame # NoFrame /\ ~tick'.redundant
              /\ tick'.raised = "none"
              /\ history_hashes' =
                     IF Len(history_hashes) = 3
                     THEN Append(Tail(history_hashes), tick'.frame.dhash)
                     ELSE Append(history_hashes, tick'.frame.dhash)
      ]_vars

(***************************************************************************)
(* Claims about the recognizer.                                            *)
(***************************************************************************)
\* C33: at most one inference is in flight at any time: concurrent calls of
\* recognize are serialized by the inference lock, which is held exactly
\* while a caller is inside the with block and is free again after every
\* call, a call whose inference raised included.
C33_OneInferenceInFlight ==
    /\ Cardinality({c \in Callers : rpc[c] \in {"predict", "exit"}}) <= 1
    /\ inference_lock <=> \E c \in Callers : rpc[c] \in {"predict", "exit"}

\* the worker's inference raised and its call returned; a handler thread is
\* inferring while the other one waits for the lock
C33_Witness ==
    /\ rpc[0] = "idle" /\ rout[0] = "raises"
    /\ rpc[1] = "predict"
    /\ rpc[2] = "lock"
    /\ inference_lock

(***************************************************************************)
(* Claims about the two pause flags.                                       *)
(***************************************************************************)
\* C34: once the handler threads have completed their pause, resume and
\* stop commands, the scheduler's pause flag and the worker's pause flag are
\* equal.
C34_PauseFlagsAgree ==
    (AllIdle /\ ocr_worker) => (paused_event = worker_pause_event)

(***************************************************************************)
(* Claims about the progress of the worker.                                *)
(***************************************************************************)
\* C35: under fair scheduling, when the worker is never stopped and is not
\* left paused for ever, every task handed to queue_image_from_memory is
\* eventually taken from the queue and finished, counted as processed or as
\* failed, and pending_count() is back at 0 once enqueuing has ceased.
C35_EveryTaskFinished ==
    ([]~worker_stop_event /\ <>[]~worker_pause_event)
    => <>[]( /\ nfin = nenq
             /\ task_queue = <<>>
             /\ PendingCount = 0
             /\ stats.processed_count + stats.failed_count = nenq )

\* tasks were enqueued and all are finished, some processed and some failed
C35_Witness ==
    /\ ~worker_stop_event /\ ~worker_pause_event
    /\ nenq >= 2 /\ nfin = nenq
    /\ PendingCount = 0
    /\ stats.processed_count >= 1 /\ stats.failed_count >= 1

\* the run the worker has just finished went down Path A: an id was staged
\* and commit was called for it
CommitCalled ==
    /\ wpc = "cleanup"
    /\ run.staged # 0
    /\ Count(run.calls, "commit") = 1

\* C36: on Path A a frame is counted as processed only when the commit
\* response reported success; a commit response without a status field
\* results in an abort of the staged id and a failed task, not in a processed
\* one.
C36_ProcessedOnlyOnReportedSuccess ==
    /\ (CommitCalled /\ run.result = "success") => run.commit_reply = "success"
    /\ (CommitCalled /\ run.commit_reply = "no_status") =>
           /\ run.result # "success"
           /\ Count(run.calls, "abort") >= 1

\* C37: for any staged id, abort is never invoked after a commit of that id
\* succeeded; a staged id never ends both committed and aborted.
C37_NoAbortAfterCommit ==
    /\ (CommitCalled /\ run.commit_reply = "success") =>
           /\ Count(run.calls, "abort") = 0
           /\ run.result = "success"
    /\ (wpc = "cleanup" /\ run.staged # 0 /\ Count(run.calls, "abort") >= 1) =>
           /\ run.commit_reply # "success"
           /\ run.result # "success"
    /\ wpc = "cleanup" =>
           \A i \in 1..Len(run.calls) :
               run.calls[i] = "abort" => \A j \in i..Len(run.calls) : run.calls[j] # "commit"

\* one staged id was committed with a reported success, another run aborted
\* its staged id after a commit that reported an error
C37_Witness ==
    /\ CommitCalled
    /\ run.commit_reply = "success"
    /\ run.result = "success"
    /\ stats.failed_count >= 1

\* C38: between the acknowledgement of a pause command and the next resume
\* the scheduler hands at most one frame to the queue, that of an iteration
\* that had passed its pause check already; every later iteration passes no
\* pause check, captures nothing and leaves the last capture time, the last
\* seen handle and the history unchanged.
C38_AtMostOneFrameWhilePaused ==
    [][ /\ fn_call'.fn = "pause" => (fn_call'.handed <= 1 /\ ~fn_call'.late)
        /\ (fn_call.fn = "pause" /\ tick.kind = "head" /\ tick'.kind # "head") =>
               /\ tick'.kind = "paused"
               /\ UNCHANGED <<last_capture_time, last_hwnd, history_hashes,
                              task_queue, nenq>> ]_vars

\* C39: a request with a valid token and no _seq_no is dispatched without a
\* replay check and leaves the last accepted sequence number unchanged: it is
\* accepted however often it was sent before and whatever number was accepted
\* before, and the stored number stays the largest number of the accepted
\* sequenced requests, so that their acceptance is not affected.
C39_UnsequencedBypassesReplayCheck ==
    /\ last_seq_no = MaxOf(accepted)
    /\ \A t \in Threads :
          LET r == hreq[t]
          IN  (hpc[t] # "idle" /\ r.token = auth_token /\ ~r.has_seq) =>
                  /\ hpc[t] # "write"
                  /\ last_seq_no = hsnap[t].last_seq_no
                  /\ hpc[t] = "reply" =>
                         /\ ~IsAuthFailure(hresp[t])
                         /\ hexec[t] = r.command

\* a pause without _seq_no is accepted as the third request, after the
\* largest sequence number was accepted and with the monitor paused already
C39_Witness ==
    /\ hpc[1] = "reply"
    /\ hreq[1].token = auth_token
    /\ ~hreq[1].has_seq
    /\ hreq[1].command = "pause"
    /\ hexec[1] = "pause"
    /\ hsnap[1].paused_event
    /\ last_seq_no = MaxSeq
    /\ nreqs = MaxReqs

\* C40: after an accepted update_filters whose filters object carries a
\* processes list, the excluded-process set is exactly the set built from
\* that list, the empty set for the empty list; a component the request does
\* not supply is left as it was; the response reports success.
C40_FiltersReplaced ==
    \A t \in Threads :
        LET r == hreq[t]
            before == hsnap[t]
        IN  (hpc[t] = "reply" /\ hexec[t] = "update_filters") =>
                /\ hresp[t].kind = "ok"
                /\ USER_EXCLUDED_PROCESSES =
                       IF r.processes # Absent THEN NormProcesses(r.processes)
                       ELSE before.processes
                /\ IGNORE_PROTECTED_WINDOWS =
                       IF r.ignore_protected # Absent THEN r.ignore_protected = "true"
                       ELSE before.ignore_protected

====
